---- MODULE Spec2Model ----
(***************************************************************************)
(* A model of the skill-reroll automation: the stat catalog, the text      *)
(* normaliser, the similarity scorer, the detection parser, the goal       *)
(* evaluator and the reroll controller (SkillRerollAutomator) with its     *)
(* caller threads and its background workers.                              *)
(*                                                                         *)
(* Text is a sequence of one-character strings, so that the character      *)
(* operations of the code (lower(), replace(), `in', re.search) are        *)
(* modelled by what they do.  Python's None is the string "None".          *)
(***************************************************************************)
EXTENDS Integers, Sequences, FiniteSets, Bags, TLC

None == "None"

(***************************************************************************)
(* stats_data.py: the stat catalog                                         *)
(***************************************************************************)
KNOWN_SKILLS ==
    << <<"A","l","l"," ","S","k","i","l","l"," ","A","m","p",".">>
     , <<"I","g","n","o","r","e"," ","R","e","s","i","s","t"," ","S","k","i","l","l"," ","A","m","p",".">>
     , <<"A","l","l"," ","A","t","t","a","c","k"," ","U","p",".">>
     , <<"A","d","d","."," ","D","a","m","a","g","e">>
     , <<"H","P"," ","A","u","t","o"," ","H","e","a","l">>
     , <<"A","b","s","o","r","b"," ","D","a","m","a","g","e">>
     , <<"H","P"," ","A","b","s","o","r","b"," ","U","p">>
     , <<"M","a","x"," ","H","P"," ","S","t","e","a","l"," ","p","e","r"," ","H","i","t">>
     , <<"C","r","i","t","."," ","D","M","G">>
     , <<"I","g","n","o","r","e"," ","R","e","s","i","s","t"," ","C","r","i","t","."," ","D","M","G">>
     , <<"D","e","f","e","n","s","e">>
     , <<"D","M","G"," ","R","e","d","u","c","t","i","o","n">>
     , <<"A","r","r","i","v","a","l"," ","S","k","i","l","l"," ","C","o","o","l","d","o","w","n"," ","R","e","d","u","c","e">>
     , <<"I","g","n","o","r","e"," ","R","e","s","i","s","t"," ","C","r","i","t","."," ","R","a","t","e">>
     , <<"I","g","n","o","r","e"," ","E","v","a","s","i","o","n">>
     , <<"A","t","t","a","c","k"," ","R","a","t","e">>
     , <<"R","e","s","i","s","t"," ","S","k","i","l","l"," ","A","m","p",".">>
     , <<"H","e","a","l">>
     , <<"I","g","n","o","r","e"," ","A","c","c","u","r","a","c","y">>
     , <<"D","e","f","e","n","s","e"," ","R","a","t","e">>
     , <<"A","r","r","i","v","a","l"," ","S","k","i","l","l"," ","D","u","r","a","t","i","o","n"," ","I","n","c","r","e","a","s","e">>
     , <<"M","a","x"," ","C","r","i","t","."," ","R","a","t","e">>
     , <<"A","c","c","u","r","a","c","y">>
     , <<"R","e","s","i","s","t"," ","C","r","i","t","."," ","D","M","G">>
     , <<"E","v","a","s","i","o","n">>
     , <<"P","e","n","e","t","r","a","t","i","o","n">>
     , <<"C","a","n","c","e","l"," ","I","g","n","o","r","e"," ","P","e","n","e","t","r","a","t","i","o","n">>
     , <<"N","o","r","m","a","l"," ","D","M","G"," ","U","p">>
     , <<"I","g","n","o","r","e"," ","P","e","n","e","t","r","a","t","i","o","n">>
     , <<"D","a","m","a","g","e"," ","A","b","s","o","r","b">>
     , <<"P","v","E"," ","R","e","s","i","s","t"," ","S","k","i","l","l"," ","A","m","p",".">>
     , <<"P","v","E"," ","R","e","s","i","s","t"," ","C","r","i","t","."," ","D","M","G">>
    >>

OFFENSIVE_SKILLS ==
    << <<"A","l","l"," ","S","k","i","l","l"," ","A","m","p",".">>
     , <<"I","g","n","o","r","e"," ","R","e","s","i","s","t"," ","S","k","i","l","l"," ","A","m","p",".">>
     , <<"A","l","l"," ","A","t","t","a","c","k"," ","U","p",".">>
     , <<"A","d","d","."," ","D","a","m","a","g","e">>
     , <<"C","r","i","t","."," ","D","M","G">>
     , <<"I","g","n","o","r","e"," ","R","e","s","i","s","t"," ","C","r","i","t","."," ","D","M","G">>
     , <<"I","g","n","o","r","e"," ","R","e","s","i","s","t"," ","C","r","i","t","."," ","R","a","t","e">>
     , <<"I","g","n","o","r","e"," ","E","v","a","s","i","o","n">>
     , <<"A","t","t","a","c","k"," ","R","a","t","e">>
     , <<"R","e","s","i","s","t"," ","S","k","i","l","l"," ","A","m","p",".">>
     , <<"I","g","n","o","r","e"," ","A","c","c","u","r","a","c","y">>
     , <<"M","a","x"," ","C","r","i","t","."," ","R","a","t","e">>
     , <<"A","c","c","u","r","a","c","y">>
     , <<"P","e","n","e","t","r","a","t","i","o","n">>
     , <<"C","a","n","c","e","l"," ","I","g","n","o","r","e"," ","P","e","n","e","t","r","a","t","i","o","n">>
     , <<"N","o","r","m","a","l"," ","D","M","G"," ","U","p">>
     , <<"I","g","n","o","r","e"," ","P","e","n","e","t","r","a","t","i","o","n">>
    >>

DEFENSIVE_SKILLS ==
    << <<"H","P"," ","A","u","t","o"," ","H","e","a","l">>
     , <<"A","b","s","o","r","b"," ","D","a","m","a","g","e">>
     , <<"H","P"," ","A","b","s","o","r","b"," ","U","p">>
     , <<"M","a","x"," ","H","P"," ","S","t","e","a","l"," ","p","e","r"," ","H","i","t">>
     , <<"D","e","f","e","n","s","e">>
     , <<"D","M","G"," ","R","e","d","u","c","t","i","o","n">>
     , <<"A","r","r","i","v","a","l"," ","S","k","i","l","l"," ","C","o","o","l","d","o","w","n"," ","R","e","d","u","c","e">>
     , <<"H","e","a","l">>
     , <<"D","e","f","e","n","s","e"," ","R","a","t","e">>
     , <<"A","r","r","i","v","a","l"," ","S","k","i","l","l"," ","D","u","r","a","t","i","o","n"," ","I","n","c","r","e","a","s","e">>
     , <<"R","e","s","i","s","t"," ","C","r","i","t","."," ","D","M","G">>
     , <<"E","v","a","s","i","o","n">>
     , <<"D","a","m","a","g","e"," ","A","b","s","o","r","b">>
     , <<"P","v","E"," ","R","e","s","i","s","t"," ","S","k","i","l","l"," ","A","m","p",".">>
     , <<"P","v","E"," ","R","e","s","i","s","t"," ","C","r","i","t","."," ","D","M","G">>
    >>

\* The two category lists are module-level list objects, and the getters
\* hand out the objects themselves: create_ui's offensive_skills and
\* defensive_skills are these lists, not copies of them.
VARIABLES
    offensive_skills,      \* the list object stats_data.OFFENSIVE_SKILLS
    defensive_skills       \* the list object stats_data.DEFENSIVE_SKILLS

catalog == << offensive_skills, defensive_skills >>

get_all_skills == KNOWN_SKILLS

get_offensive_skills == offensive_skills

get_defensive_skills == defensive_skills

\* The callers import get_base_stat_name from stats_data; the catalog's
\* display name is also its detection key.
get_base_stat_name(stat) == stat

\* set(get_base_stat_name(stat) for stat in get_offensive_skills())
offensive_base_stats ==
    { get_base_stat_name(get_offensive_skills[i]) : i \in DOMAIN get_offensive_skills }

defensive_base_stats ==
    { get_base_stat_name(get_defensive_skills[i]) : i \in DOMAIN get_defensive_skills }

(***************************************************************************)
(* Characters                                                              *)
(***************************************************************************)
UpperChars ==
    << "A","B","C","D","E","F","G","H","I","J","K","L","M",
       "N","O","P","Q","R","S","T","U","V","W","X","Y","Z" >>

LowerChars ==
    << "a","b","c","d","e","f","g","h","i","j","k","l","m",
       "n","o","p","q","r","s","t","u","v","w","x","y","z" >>

DigitChars == << "0","1","2","3","4","5","6","7","8","9" >>

IsDigit(c) == \E i \in DOMAIN DigitChars : DigitChars[i] = c

DigitValue(c) == (CHOOSE i \in DOMAIN DigitChars : DigitChars[i] = c) - 1

\* str.lower() on one character
LowerChar(c) ==
    IF \E i \in DOMAIN UpperChars : UpperChars[i] = c
    THEN LowerChars[CHOOSE i \in DOMAIN UpperChars : UpperChars[i] = c]
    ELSE c

\* str.lower()
Lower(text) == [i \in DOMAIN text |-> LowerChar(text[i])]

\* str.replace(ch, "")
Remove(text, ch) == SelectSeq(text, LAMBDA c : c # ch)

\* `word in text' on strings: word occurs as a contiguous substring
Contains(text, word) ==
    \E i \in 0..(Len(text) - Len(word)) :
        \A j \in 1..Len(word) : text[i + j] = word[j]

\* `char in text' for one character
CharIn(c, text) == \E i \in DOMAIN text : text[i] = c

\* int() of a run of decimal digits
RECURSIVE IntOf(_)
IntOf(digits) ==
    IF digits = << >> THEN 0
    ELSE 10 * IntOf(SubSeq(digits, 1, Len(digits) - 1)) + DigitValue(digits[Len(digits)])

\* str() of a natural number
RECURSIVE StrOf(_)
StrOf(n) ==
    IF n < 10 THEN << DigitChars[n + 1] >>
    ELSE StrOf(n \div 10) \o << DigitChars[(n % 10) + 1] >>

\* re.search(r'[+]?(\d+)(?:[%s])?', text) and re.search(r'(\d+)[s]?', text):
\* both find the leftmost maximal run of digits, which is group(1).
HasDigitRun(text) == \E i \in DOMAIN text : IsDigit(text[i])

FirstDigit(text) ==
    CHOOSE i \in DOMAIN text : IsDigit(text[i]) /\ \A j \in 1..(i - 1) : ~IsDigit(text[j])

RunEnd(text, first) ==
    CHOOSE k \in first..Len(text) :
        /\ \A j \in first..k : IsDigit(text[j])
        /\ (k = Len(text) \/ ~IsDigit(text[k + 1]))

DigitRunAt(text, first) == SubSeq(text, first, RunEnd(text, first))

FirstDigitRun(text) == DigitRunAt(text, FirstDigit(text))

(***************************************************************************)
(* paddle_ocr_implementation.py: normaliser and similarity scorer          *)
(***************************************************************************)
\* normalize_text as it would be without the second replace().
normalize_text_KeepsPeriods(text) == Remove(Lower(text), " ")

\* text.lower().replace(" ", "").replace(".", "")
normalize_text(text) == Remove(Remove(Lower(text), " "), ".")

Max(a, b) == IF a >= b THEN a ELSE b

Abs(a) == IF a >= 0 THEN a ELSE -a

\* A score is the fraction num/den (den > 0); the code's floats
\* char_matches/max_length - (|len1 - len2|/max_length) * 0.5 are the fraction
\* (2 * char_matches - |len1 - len2|) / (2 * max_length), clamped to [0, 1].
\* The floats differ from the fraction by rounding in the last place only:
\* against 0.6 and against a different fraction they compare as the fractions
\* do, but two scores that are equal as fractions and come from different
\* lengths can differ as floats.
Frac(n, d) == [num |-> n, den |-> d]

FracGT(a, b) == a.num * b.den > b.num * a.den

FracGE(a, b) == a.num * b.den >= b.num * a.den

\* The count as it would be if a repeated character were counted once.
char_matches_Distinct(str1, str2) ==
    Cardinality({ str1[i] : i \in { j \in DOMAIN str1 : CharIn(str1[j], str2) } })

\* for char in str1: if char in str2: char_matches += 1
char_matches(str1, str2) ==
    Cardinality({ i \in DOMAIN str1 : CharIn(str1[i], str2) })

\* max(0, min(similarity, 1)) of the fraction n/d
Clamp(n, d) ==
    IF n <= 0 THEN Frac(0, 1) ELSE IF n >= d THEN Frac(1, 1) ELSE Frac(n, d)

calculate_string_similarity(str1, str2) ==
    IF str1 = << >> \/ str2 = << >> THEN Frac(0, 1)
    ELSE IF str1 = str2 THEN Frac(1, 1)
    ELSE Clamp(2 * char_matches(str1, str2) - Abs(Len(str1) - Len(str2)),
               2 * Max(Len(str1), Len(str2)))

\* The acceptance threshold 0.6 of parse_detected_text, as the fraction 3/5.
Threshold == Frac(3, 5)

(***************************************************************************)
(* paddle_ocr_implementation.py: the detection parser                      *)
(***************************************************************************)
\* A dict is a function whose DOMAIN is its set of keys.
EmptyDict == << >>

DictGet(d, k, default) == IF k \in DOMAIN d THEN d[k] ELSE default

DictPut(d, k, v) == [x \in (DOMAIN d) \cup {k} |-> IF x = k THEN v ELSE d[x]]

\* counter[k] = counter.get(k, 0) + 1
DictInc(d, k) == DictPut(d, k, DictGet(d, k, 0) + 1)

\* The pairing distance of parse_detected_text, in box units (pixels).
PairingDistance == 50

\* get_y_center returns (box[0][1] + box[2][1]) / 2, a float that may end in
\* .5; the model keeps twice that value, and compares distances doubled.
get_y_center2(box) ==
    IF Len(box) # 4 THEN 0 ELSE box[1][2] + box[3][2]

ArrivalStat ==
    <<"A","r","r","i","v","a","l"," ","S","k","i","l","l"," ",
      "C","o","o","l"," ","T","i","m","e"," ",
      "d","e","c","r","e","a","s","e","d",".">>

\* The arrival test as it would be without lower().
IsArrivalText_CaseSensitive(text) ==
    /\ Contains(text, <<"a","r","r","i","v","a","l">>)
    /\ Contains(text, <<"c","o","o","l">>)
    /\ Contains(text, <<"t","i","m","e">>)

IsArrivalText(text) ==
    /\ Contains(Lower(text), <<"a","r","r","i","v","a","l">>)
    /\ Contains(Lower(text), <<"c","o","o","l">>)
    /\ Contains(Lower(text), <<"t","i","m","e">>)

\* normalized_stats = {normalize_text(stat): stat for stat in stat_names}:
\* a key keeps the place of its first insertion and the value of its last.
DictOrder(names) ==
    SelectSeq([i \in DOMAIN names |-> i],
              LAMBDA i : \A j \in 1..(i - 1) :
                  normalize_text(names[j]) # normalize_text(names[i]))

LastWith(names, i) ==
    CHOOSE j \in DOMAIN names :
        /\ normalize_text(names[j]) = normalize_text(names[i])
        /\ \A k \in (j + 1)..Len(names) :
               normalize_text(names[k]) # normalize_text(names[i])

NormalizedDict(names, order) ==
    [n \in DOMAIN order |->
        [norm_stat |-> normalize_text(names[order[n]]),
         original_stat |-> names[LastWith(names, order[n])]]]

normalized_stats == NormalizedDict(get_all_skills, DictOrder(get_all_skills))

\* The best-match loop as it would be if an equal score replaced the match.
RECURSIVE BestMatchFrom_LastBest(_, _, _, _, _)
BestMatchFrom_LastBest(norm_text, table, n, best_match, best_similarity) ==
    IF n > Len(table) THEN [match |-> best_match, similarity |-> best_similarity]
    ELSE IF FracGE(calculate_string_similarity(norm_text, table[n].norm_stat),
                   best_similarity)
    THEN BestMatchFrom_LastBest(norm_text, table, n + 1, table[n].original_stat,
                       calculate_string_similarity(norm_text, table[n].norm_stat))
    ELSE BestMatchFrom_LastBest(norm_text, table, n + 1, best_match, best_similarity)

\* The best-match loop over the items of a normalized_stats dict, from entry
\* n on: strict improvement, so the first entry with the best score is kept.
RECURSIVE BestMatchFrom(_, _, _, _, _)
BestMatchFrom(norm_text, table, n, best_match, best_similarity) ==
    IF n > Len(table) THEN [match |-> best_match, similarity |-> best_similarity]
    ELSE IF FracGT(calculate_string_similarity(norm_text, table[n].norm_stat),
                   best_similarity)
    THEN BestMatchFrom(norm_text, table, n + 1, table[n].original_stat,
                       calculate_string_similarity(norm_text, table[n].norm_stat))
    ELSE BestMatchFrom(norm_text, table, n + 1, best_match, best_similarity)

\* best_match starts as None, written << >> here: `if best_match' is false for
\* None and for the empty string alike.
BestMatch(text) ==
    BestMatchFrom(normalize_text(text), normalized_stats, 1, << >>, Frac(0, 1))

Entry(stats, values, unmapped) ==
    [stats |-> stats, values |-> values, unmapped |-> unmapped]

\* The pass over an item as it would be if a value went on to the matching.
Classify_NoContinue(y, text, best) ==
    IF IsArrivalText(text) /\ HasDigitRun(text)
    THEN Entry(<< [y |-> y, stat_name |-> ArrivalStat] >>,
               << [y |-> y, value |-> IntOf(FirstDigitRun(text))] >>,
               << >>)
    ELSE IF best.match # << >> /\ FracGE(best.similarity, Threshold)
    THEN Entry(<< [y |-> y, stat_name |-> best.match] >>,
               IF HasDigitRun(text)
               THEN << [y |-> y, value |-> IntOf(FirstDigitRun(text))] >>
               ELSE << >>,
               << >>)
    ELSE Entry(<< >>,
               IF HasDigitRun(text)
               THEN << [y |-> y, value |-> IntOf(FirstDigitRun(text))] >>
               ELSE << >>,
               << text >>)

\* One pass of the loop over detected_items: what the item adds to
\* stats_with_y, to values_with_y and to the unmapped texts.
Classify(y, text, best) ==
    IF IsArrivalText(text) /\ HasDigitRun(text)
    THEN Entry(<< [y |-> y, stat_name |-> ArrivalStat] >>,
               << [y |-> y, value |-> IntOf(FirstDigitRun(text))] >>,
               << >>)
    ELSE IF HasDigitRun(text)
    THEN Entry(<< >>, << [y |-> y, value |-> IntOf(FirstDigitRun(text))] >>, << >>)
    ELSE IF best.match # << >> /\ FracGE(best.similarity, Threshold)
    THEN Entry(<< [y |-> y, stat_name |-> best.match] >>, << >>, << >>)
    ELSE Entry(<< >>, << >>, << text >>)

ClassifyItem(item) ==
    Classify(get_y_center2(item.box), item.text, BestMatch(item.text))

Concat(head, rest) ==
    Entry(head.stats \o rest.stats, head.values \o rest.values,
          head.unmapped \o rest.unmapped)

RECURSIVE ClassifyAll(_)
ClassifyAll(items) ==
    IF items = << >> THEN Entry(<< >>, << >>, << >>)
    ELSE Concat(ClassifyItem(Head(items)), ClassifyAll(Tail(items)))

\* The nearest-value loop as it would be without the comparison of distances.
RECURSIVE ClosestFrom_NoComparison(_, _, _, _, _)
ClosestFrom_NoComparison(stat_y, values, n, closest_value, min_distance) ==
    IF n > Len(values) THEN [value |-> closest_value, distance |-> min_distance]
    ELSE ClosestFrom_NoComparison(stat_y, values, n + 1, values[n].value,
                                  Abs(stat_y - values[n].y))

\* The nearest-value loop for one label: strict improvement, so the first
\* of equally near values is kept.  min_distance starts at infinity, written
\* -1 here; closest_value is None exactly as long as min_distance is infinite.
RECURSIVE ClosestFrom(_, _, _, _, _)
ClosestFrom(stat_y, values, n, closest_value, min_distance) ==
    IF n > Len(values) THEN [value |-> closest_value, distance |-> min_distance]
    ELSE IF min_distance = -1 \/ Abs(stat_y - values[n].y) < min_distance
    THEN ClosestFrom(stat_y, values, n + 1, values[n].value, Abs(stat_y - values[n].y))
    ELSE ClosestFrom(stat_y, values, n + 1, closest_value, min_distance)

\* The acceptance of a pairing as it would be at 50 units or less.
PairOne_Inclusive(found_stats, stat_name, c) ==
    IF c.distance # -1 /\ c.distance <= 2 * PairingDistance
    THEN DictPut(found_stats, stat_name, c.value)
    ELSE found_stats

\* The pairing as it would be if a name already in the map kept its value.
PairOne_KeepFirst(found_stats, stat_name, c) ==
    IF c.distance # -1 /\ c.distance < 2 * PairingDistance
           /\ stat_name \notin DOMAIN found_stats
    THEN DictPut(found_stats, stat_name, c.value)
    ELSE found_stats

\* if closest_value is not None and min_distance < 50
PairOne(found_stats, stat_name, c) ==
    IF c.distance # -1 /\ c.distance < 2 * PairingDistance
    THEN DictPut(found_stats, stat_name, c.value)
    ELSE found_stats

RECURSIVE PairFrom(_, _, _, _)
PairFrom(stats, values, n, found_stats) ==
    IF n > Len(stats) THEN found_stats
    ELSE PairFrom(stats, values, n + 1,
                  PairOne(found_stats, stats[n].stat_name,
                          ClosestFrom(stats[n].y, values, 1, 0, -1)))

RECURSIVE IncAll(_, _)
IncAll(counter, texts) ==
    IF texts = << >> THEN counter
    ELSE IncAll(DictInc(counter, Head(texts)), Tail(texts))

Paired(c) ==
    [found_stats |-> PairFrom(c.stats, c.values, 1, EmptyDict),
     unmapped |-> c.unmapped]

\* parse_detected_text: the found stats, and the texts it counts in the
\* unmapped counter (one increment each, in item order).
parse_detected_text(detected_items) == Paired(ClassifyAll(detected_items))

(***************************************************************************)
(* automation.py: the goal evaluator                                       *)
(***************************************************************************)
\* desired_stats is a dict with the lists 'offensive' and 'defensive' of
\* (display_stat_name, min_value, variation) triples, or None (the default
\* of start()).
DesiredNone == [none |-> TRUE]

IsNone(desired_stats) == "none" \in DOMAIN desired_stats

\* The test of a slot as it would be with > in place of >=.
SlotMatches_Strict(current_stats, slots) ==
    LET base_stat_name == get_base_stat_name(slots[1][1])
        min_value == slots[1][2]
    IN  /\ base_stat_name \in DOMAIN current_stats
        /\ current_stats[base_stat_name] > min_value

SlotMatches(current_stats, slots) ==
    LET base_stat_name == get_base_stat_name(slots[1][1])
        min_value == slots[1][2]
    IN  /\ base_stat_name \in DOMAIN current_stats
        /\ current_stats[base_stat_name] >= min_value

\* The evaluator as it would be if it emitted each match message at once.
check_desired_stats_SaysEachMatch(current_stats, desired_stats) ==
    IF IsNone(desired_stats)
    THEN [raised |-> TRUE, result |-> FALSE, messages |-> 0]
    ELSE IF desired_stats.offensive = << >> /\ desired_stats.defensive = << >>
    THEN [raised |-> FALSE, result |-> TRUE, messages |-> 0]
    ELSE LET off_set == desired_stats.offensive # << >>
             def_set == desired_stats.defensive # << >>
             off_hit == off_set /\ SlotMatches(current_stats, desired_stats.offensive)
             def_hit == def_set /\ SlotMatches(current_stats, desired_stats.defensive)
         IN  [raised |-> FALSE,
              result |-> (~off_set \/ off_hit) /\ (~def_set \/ def_hit),
              messages |-> (IF off_hit THEN 1 ELSE 0) + (IF def_hit THEN 1 ELSE 0)]

\* check_desired_stats: raised (subscripting None raises TypeError), the
\* result, and the number of match messages it emits.
check_desired_stats(current_stats, desired_stats) ==
    IF IsNone(desired_stats)
    THEN [raised |-> TRUE, result |-> FALSE, messages |-> 0]
    ELSE IF desired_stats.offensive = << >> /\ desired_stats.defensive = << >>
    THEN [raised |-> FALSE, result |-> TRUE, messages |-> 0]
    ELSE LET off_set == desired_stats.offensive # << >>
             def_set == desired_stats.defensive # << >>
             off_hit == off_set /\ SlotMatches(current_stats, desired_stats.offensive)
             def_hit == def_set /\ SlotMatches(current_stats, desired_stats.defensive)
             off_match == ~off_set \/ off_hit
             def_match == ~def_set \/ def_hit
             overall_match == off_match /\ def_match
         IN  [raised |-> FALSE,
              result |-> overall_match,
              messages |-> IF overall_match
                           THEN (IF off_hit THEN 1 ELSE 0) + (IF def_hit THEN 1 ELSE 0)
                           ELSE 0]

(***************************************************************************)
(* Bounds of the model                                                     *)
(***************************************************************************)
\* Worker threads alive at once.
MaxWorkers == 2

\* The largest count a counter entry reaches.
MaxCount == 1

(***************************************************************************)
(* Inputs                                                                  *)
(***************************************************************************)
NoCoords == << >>

ApplyChoices == { NoCoords, <<100, 200>> }

ChangeChoices == { NoCoords, <<300, 400>> }

Defense == <<"D","e","f","e","n","s","e">>

\* The desired_stats arguments callers pass: the default None, no slot set,
\* and a defensive slot (the UI builds the last two shapes).
DesiredChoices ==
    { DesiredNone,
      [offensive |-> << >>, defensive |-> << >>],
      [offensive |-> << >>, defensive |-> << <<Defense, 200, <<"2","0","0">>>> >>] }

Box(top, bottom) == << <<0, top>>, <<40, top>>, <<40, bottom>>, <<0, bottom>> >>

Item(top, bottom, text) == [box |-> Box(top, bottom), text |-> text, confidence |-> 9]

\* What the OCR engine returns for a capture (after the confidence filter):
\* nothing, a label with its value, a label alone with an unreadable token.
OcrResults ==
    << << >>,
       << Item(95, 105, Defense), Item(100, 110, <<"+","2","0","0">>) >>,
       << Item(95, 105, <<"x","y","z">>) >> >>

\* parse_detected_text on each of them.
Parsed == [i \in DOMAIN OcrResults |-> parse_detected_text(OcrResults[i])]

(***************************************************************************)
(* State                                                                   *)
(***************************************************************************)
VARIABLES
    running,               \* SkillRerollAutomator.running
    reader,                \* SkillRerollAutomator.reader: None or the engine
    apply_button_coords,   \* SkillRerollAutomator.apply_button_coords
    change_button_coords,  \* SkillRerollAutomator.change_button_coords
    detailed_logging,      \* SkillRerollAutomator.detailed_logging
    stat_counter,          \* SkillRerollAutomator.stat_counter
    unmapped_ocr_counter,  \* SkillRerollAutomator.unmapped_ocr_counter
    game_window,           \* GameConnector.game_window is set
    desired_arg,           \* the desired_stats argument the caller passes to start()
    ui_pc,                 \* the UI thread: in create_ui, idle, or inside start() or stop()
    key_pc,                \* the hotkey thread: idle, or inside emergency_stop()
    threads,               \* the bag of live worker threads running reroll_loop
    stopReturned,          \* a stop() has returned and running has stayed false since
    stopAlone,             \* no worker has taken a step since the UI thread's stop() began
    status,                \* the message the last step gave to the status callback
    ret,                   \* the value start() or emergency_stop() returned in the last step
    exited,                \* how a worker thread ended in the last step
    args,                  \* the arguments of a function called on its own
    result                 \* what that call returned

\* A worker thread is a record:
\*   pc       its place in reroll_loop
\*   last     its last click, capture or goal event
\*   ocr      how the detection of its current pass went
\*   applies  its apply clicks since the last stop() returned
\*   changes  its change clicks since the last stop() returned
Worker(pc, last, ocr, applies, changes) ==
    [pc |-> pc, last |-> last, ocr |-> ocr, applies |-> applies, changes |-> changes]

ctrl == << running, reader, apply_button_coords, change_button_coords,
           detailed_logging, stat_counter, unmapped_ocr_counter >>

callers == << ui_pc, key_pc >>

outputs == << status, ret, exited >>

history == << stopReturned, stopAlone >>

\* A function of the program called on its own, outside a run.
call == << args, result >>

vars == << ctrl, game_window, desired_arg, callers, threads, history, outputs, call,
          catalog >>

\* No function is called on its own.
NoArgs == [fn |-> "none"]

\* The call has not returned yet.
Pending == [done |-> FALSE]

Returned(value) == [done |-> TRUE, value |-> value]

Engine == "PaddleOCRWrapper"

Workers == BagToSet(threads)

\* What a step shows: a status message, a returned value, the end of a thread.
Output(message, returned, ended) ==
    /\ status' = message
    /\ ret' = returned
    /\ exited' = ended

RECURSIVE SumCopies(_, _)
SumCopies(bag, elems) ==
    IF elems = {} THEN 0
    ELSE LET e == CHOOSE x \in elems : TRUE
         IN  CopiesIn(e, bag) + SumCopies(bag, elems \ {e})

ClicksReset(t) == [t EXCEPT !.applies = 0, !.changes = 0]

\* The bag of threads with every thread's click counts reset.
AllClicksReset(bag) ==
    [u \in { ClicksReset(t) : t \in BagToSet(bag) } |->
        SumCopies(bag, { t \in BagToSet(bag) : ClicksReset(t) = u })]

Init ==
    /\ running = FALSE
    /\ reader = None
    /\ apply_button_coords = NoCoords
    /\ change_button_coords = NoCoords
    /\ detailed_logging = FALSE
    /\ stat_counter = EmptyDict
    /\ unmapped_ocr_counter = EmptyDict
    /\ game_window = FALSE
    /\ desired_arg \in DesiredChoices
    /\ ui_pc = "create_ui"
    /\ key_pc = "idle"
    /\ threads = EmptyBag
    /\ stopReturned = FALSE
    /\ stopAlone = FALSE
    /\ status = "info"
    /\ ret = "none"
    /\ exited = "none"
    /\ offensive_skills = OFFENSIVE_SKILLS
    /\ defensive_skills = DEFENSIVE_SKILLS
    /\ args = NoArgs
    /\ result = Pending

(***************************************************************************)
(* automation.py: start()                                                  *)
(***************************************************************************)
\* GameConnector.connect_to_game: it returns True with the window set, or
\* shows an error and returns False; the window is then unset, or set already
\* when the window found is not visible or not enabled.
ConnectOutcomes ==
    { [ok |-> TRUE, window |-> TRUE],
      [ok |-> FALSE, window |-> FALSE],
      [ok |-> FALSE, window |-> TRUE] }

\* start() as it would be with the arguments stored before they are checked.
StartCall_StoresFirst(apply_coords, change_coords, logging, conn) ==
    /\ ui_pc = "idle"
    /\ apply_button_coords' = apply_coords
    /\ change_button_coords' = change_coords
    /\ detailed_logging' = logging
    /\ IF apply_coords = NoCoords \/ change_coords = NoCoords
       THEN /\ Output("none", "start_false", "none")
            /\ UNCHANGED << running, reader, stat_counter, unmapped_ocr_counter,
                            game_window, ui_pc >>
       ELSE IF ~game_window /\ ~conn.ok
       THEN /\ game_window' = conn.window
            /\ Output("none", "start_false", "none")
            /\ UNCHANGED << running, reader, stat_counter, unmapped_ocr_counter, ui_pc >>
       ELSE /\ game_window' = TRUE
            /\ unmapped_ocr_counter' = EmptyDict
            /\ reader' = None
            /\ ui_pc' = "start_init"
            /\ Output("info", "none", "none")
            /\ UNCHANGED << running, stat_counter >>
    /\ UNCHANGED << desired_arg, key_pc, threads, history >>

\* start() up to the construction of the engine (lines 44-74).
StartCall(apply_coords, change_coords, logging, conn) ==
    /\ ui_pc = "idle"
    /\ IF apply_coords = NoCoords \/ change_coords = NoCoords
       THEN /\ Output("none", "start_false", "none")
            /\ UNCHANGED << ctrl, game_window, ui_pc >>
       ELSE IF ~game_window /\ ~conn.ok
       THEN /\ game_window' = conn.window
            /\ Output("none", "start_false", "none")
            /\ UNCHANGED << ctrl, ui_pc >>
       ELSE /\ game_window' = TRUE
            /\ apply_button_coords' = apply_coords
            /\ change_button_coords' = change_coords
            /\ detailed_logging' = logging
            /\ unmapped_ocr_counter' = EmptyDict
            /\ reader' = None
            /\ ui_pc' = "start_init"
            /\ Output("info", "none", "none")
            /\ UNCHANGED << running, stat_counter >>
    /\ UNCHANGED << desired_arg, key_pc, threads, history >>

NewWorker == Worker("begin", "none", "none", 0, 0)

\* The rest of start() as it would be with running set before the engine is
\* constructed.
StartInit_RunsFirst(engine_ok) ==
    /\ ui_pc = "start_init"
    /\ ui_pc' = "idle"
    /\ running' = TRUE
    /\ IF engine_ok
       THEN /\ BagCardinality(threads) < MaxWorkers
            /\ reader' = Engine
            /\ threads' = AllClicksReset(threads) (+) SetToBag({NewWorker})
            /\ stopReturned' = FALSE
            /\ Output("none", "start_true", "none")
       ELSE /\ reader' = None
            /\ Output("engine_error", "start_false", "none")
            /\ UNCHANGED << threads, stopReturned >>
    /\ UNCHANGED << apply_button_coords, change_button_coords, detailed_logging,
                    stat_counter, unmapped_ocr_counter, game_window, desired_arg,
                    key_pc, stopAlone >>

\* The engine is constructed and the thread launched, or the construction
\* raises (lines 76-86).
StartInit(engine_ok) ==
    /\ ui_pc = "start_init"
    /\ ui_pc' = "idle"
    /\ IF engine_ok
       THEN /\ BagCardinality(threads) < MaxWorkers
            /\ reader' = Engine
            /\ running' = TRUE
            /\ threads' = AllClicksReset(threads) (+) SetToBag({NewWorker})
            /\ stopReturned' = FALSE
            /\ Output("none", "start_true", "none")
       ELSE /\ reader' = None
            /\ Output("engine_error", "start_false", "none")
            /\ UNCHANGED << running, threads, stopReturned >>
    /\ UNCHANGED << apply_button_coords, change_button_coords, detailed_logging,
                    stat_counter, unmapped_ocr_counter, game_window, desired_arg,
                    key_pc, stopAlone >>

(***************************************************************************)
(* automation.py: stop() and emergency_stop()                              *)
(***************************************************************************)
\* stop(), after running = False: the engine is released, the stopped
\* message shown and the counter of stats tested (lines 92-99); with no stat
\* counted stop() returns.
StopCleanup ==
    /\ reader' = None
    /\ stopReturned' = IF stat_counter = EmptyDict THEN ~running ELSE stopReturned
    /\ UNCHANGED << running, apply_button_coords, change_button_coords,
                    detailed_logging, stat_counter, unmapped_ocr_counter,
                    game_window, desired_arg >>

\* The summary of stop() and the reset of both counters, after which stop()
\* returns (lines 100-161).
StopSummary ==
    /\ stat_counter' = EmptyDict
    /\ unmapped_ocr_counter' = EmptyDict
    /\ stopReturned' = ~running
    /\ UNCHANGED << running, reader, apply_button_coords, change_button_coords,
                    detailed_logging, game_window, desired_arg >>

\* stop() called on the UI thread: running = False (line 90) ...
UiStop ==
    /\ ui_pc = "idle"
    /\ running' = FALSE
    /\ ui_pc' = "stop_cleanup"
    /\ stopAlone' = TRUE
    /\ Output("none", "none", "none")
    /\ UNCHANGED << reader, apply_button_coords, change_button_coords, detailed_logging,
                    stat_counter, unmapped_ocr_counter, game_window, desired_arg,
                    key_pc, threads, stopReturned >>

\* ... the rest of it up to the test of the counter ...
UiStopCleanup ==
    /\ ui_pc = "stop_cleanup"
    /\ StopCleanup
    /\ IF stat_counter = EmptyDict
       THEN /\ threads' = AllClicksReset(threads)
            /\ ui_pc' = "idle"
            /\ stopAlone' = FALSE
       ELSE /\ ui_pc' = "stop_summary"
            /\ UNCHANGED << threads, stopAlone >>
    /\ Output("stopped", "none", "none")
    /\ UNCHANGED key_pc

\* ... and the summary.
UiStopSummary ==
    /\ ui_pc = "stop_summary"
    /\ StopSummary
    /\ threads' = AllClicksReset(threads)
    /\ ui_pc' = "idle"
    /\ stopAlone' = FALSE
    /\ Output("summary", "none", "none")
    /\ UNCHANGED key_pc

\* The step in which the stop() of the UI thread returns.
UiStopReturns == (UiStopCleanup /\ ui_pc' = "idle") \/ UiStopSummary

\* emergency_stop() on the hotkey thread: the check of running and, when it
\* is set, the first statement of stop() (lines 391-393, 90, 397).
EmergencyStop ==
    /\ key_pc = "idle"
    /\ IF running
       THEN /\ running' = FALSE
            /\ key_pc' = "stop_cleanup"
            /\ Output("none", "none", "none")
       ELSE /\ Output("none", "estop_false", "none")
            /\ UNCHANGED << running, key_pc >>
    /\ UNCHANGED << reader, apply_button_coords, change_button_coords, detailed_logging,
                    stat_counter, unmapped_ocr_counter, game_window, desired_arg,
                    ui_pc, threads, history >>

\* The rest of stop() up to the test of the counter; with no stat counted,
\* the emergency message and the return of True (lines 92-99, 394-396).
EmergencyStopCleanup ==
    /\ key_pc = "stop_cleanup"
    /\ StopCleanup
    /\ IF stat_counter = EmptyDict
       THEN /\ threads' = AllClicksReset(threads)
            /\ key_pc' = "idle"
            /\ Output("emergency", "estop_true", "none")
       ELSE /\ key_pc' = "stop_summary"
            /\ Output("stopped", "none", "none")
            /\ UNCHANGED threads
    /\ UNCHANGED << ui_pc, stopAlone >>

\* The summary of stop(), the emergency message and the return of True
\* (lines 100-161, 394-396).
EmergencyStopSummary ==
    /\ key_pc = "stop_summary"
    /\ StopSummary
    /\ threads' = AllClicksReset(threads)
    /\ key_pc' = "idle"
    /\ Output("emergency", "estop_true", "none")
    /\ UNCHANGED << ui_pc, stopAlone >>

\* The step in which emergency_stop() returns True.
EmergencyStopReturns ==
    (EmergencyStopCleanup /\ key_pc' = "idle") \/ EmergencyStopSummary

(***************************************************************************)
(* automation.py: reroll_loop, run by a worker thread t                    *)
(***************************************************************************)
\* A click counted since the last return of stop().
Bump(count) == IF stopReturned /\ count < 2 THEN count + 1 ELSE count

\* f"{stat} +{value}"
StatKey(stat, value) == stat \o <<" ", "+">> \o StrOf(value)

\* The tracking as it would be without the loop over the other stats.
TrackHits_NoOther(stat) ==
    (IF stat \in offensive_base_stats THEN 1 ELSE 0)
    + (IF stat \in defensive_base_stats THEN 1 ELSE 0)

\* How often the three tracking loops (offensive, defensive, other) count a stat.
TrackHits(stat) ==
    (IF stat \in offensive_base_stats THEN 1 ELSE 0)
    + (IF stat \in defensive_base_stats THEN 1 ELSE 0)
    + (IF stat \notin offensive_base_stats /\ stat \notin defensive_base_stats
       THEN 1 ELSE 0)

RECURSIVE SumHits(_, _, _)
SumHits(current_stats, stats, key) ==
    IF stats = {} THEN 0
    ELSE LET s == CHOOSE x \in stats : TRUE
         IN  (IF StatKey(s, current_stats[s]) = key THEN TrackHits(s) ELSE 0)
             + SumHits(current_stats, stats \ {s}, key)

\* The stat counter after the tracking loops of one pass (lines 254-279).
TrackStats(counter, current_stats) ==
    LET keys == { StatKey(s, current_stats[s]) : s \in DOMAIN current_stats }
    IN  [k \in (DOMAIN counter) \cup keys |->
            DictGet(counter, k, 0) + SumHits(current_stats, DOMAIN current_stats, k)]

WithinCount(counter) == \A k \in DOMAIN counter : counter[k] <= MaxCount

\* Thread t takes a step that leaves it as u.
Step(t, u) ==
    /\ t \in Workers
    /\ threads' = (threads (-) SetToBag({t})) (+) SetToBag({u})
    /\ stopAlone' = FALSE

\* Thread t ends.
Exit(t) ==
    /\ t \in Workers
    /\ threads' = threads (-) SetToBag({t})
    /\ stopAlone' = FALSE

\* The start of the loop as it would be without the first click of change.
WBegin_NoClick(t) ==
    /\ t.pc = "begin"
    /\ Step(t, [t EXCEPT !.pc = "loop"])
    /\ Output("info", "none", "none")
    /\ UNCHANGED << ctrl, game_window, desired_arg, callers, stopReturned >>

\* The first click of change, before the loop (lines 212-230).
WBegin(t) ==
    /\ t.pc = "begin"
    /\ Step(t, [t EXCEPT !.pc = "loop", !.last = "change", !.changes = Bump(@)])
    /\ Output("info", "none", "none")
    /\ UNCHANGED << ctrl, game_window, desired_arg, callers, stopReturned >>

\* The loop as it would be if it did not poll the flag.
WLoop_NoPoll(t) ==
    /\ t.pc = "loop"
    /\ Step(t, [t EXCEPT !.pc = "apply"])
    /\ Output("none", "none", "none")
    /\ UNCHANGED << ctrl, game_window, desired_arg, callers, stopReturned >>

\* while self.running (line 232)
WLoop(t) ==
    /\ t.pc = "loop"
    /\ IF running
       THEN /\ Step(t, [t EXCEPT !.pc = "apply"])
            /\ Output("none", "none", "none")
       ELSE /\ Exit(t)
            /\ Output("none", "none", "loop_end")
    /\ UNCHANGED << ctrl, game_window, desired_arg, callers, stopReturned >>

\* The goal evaluation as it would be without the break after a success.
CheckStep_NoBreak(t, u, r, message) ==
    IF r.raised
    THEN /\ Exit(t)
         /\ Output(message, "none", "exception")
         /\ UNCHANGED running
    ELSE IF r.result
    THEN /\ Step(t, [u EXCEPT !.pc = "change", !.last = "goal_true"])
         /\ Output("success", "none", "none")
         /\ running' = FALSE
    ELSE /\ Step(t, [u EXCEPT !.pc = "change", !.last = "goal_false"])
         /\ Output(message, "none", "none")
         /\ UNCHANGED running

\* The goal evaluation of thread t, which the pass has left as u so far, with
\* `message' the last message before it; when the goal holds, the success
\* message and the first statement of stop() (lines 310-313, 90).
CheckStep(t, u, r, message) ==
    IF r.raised
    THEN \* TypeError: 'NoneType' object is not subscriptable
         /\ Exit(t)
         /\ Output(message, "none", "exception")
         /\ UNCHANGED running
    ELSE IF r.result
    THEN /\ Step(t, [u EXCEPT !.pc = "stop_cleanup", !.last = "goal_true"])
         /\ Output("success", "none", "none")
         /\ running' = FALSE
    ELSE /\ Step(t, [u EXCEPT !.pc = "change", !.last = "goal_false"])
         /\ Output(message, "none", "none")
         /\ UNCHANGED running

\* The pass as it would be if it went on without looking at the capture.
WApply_NoRetry(t, image_ok) ==
    /\ t.pc = "apply"
    /\ IF reader # None
       THEN /\ Step(t, [t EXCEPT !.pc = "readtext", !.last = "capture_ok",
                                 !.applies = Bump(@)])
            /\ Output("none", "none", "none")
            /\ UNCHANGED running
       ELSE CheckStep(t, [t EXCEPT !.ocr = "skipped", !.applies = Bump(@)],
                      check_desired_stats(EmptyDict, desired_arg), "info")
    /\ UNCHANGED << reader, apply_button_coords, change_button_coords,
                    detailed_logging, stat_counter, unmapped_ocr_counter,
                    game_window, desired_arg, callers, stopReturned >>

\* The click of apply and capture_screen_region; the retry when it returns
\* None; otherwise the check that the engine is there and, when it is not,
\* the goal evaluation on no stats (lines 233-248, 306-311).
WApply(t, image_ok) ==
    /\ t.pc = "apply"
    /\ IF ~(game_window /\ image_ok)
       THEN /\ Step(t, [t EXCEPT !.pc = "loop", !.last = "capture_failed",
                                 !.applies = Bump(@)])
            /\ Output("info", "none", "none")
            /\ UNCHANGED running
       ELSE IF reader # None
       THEN /\ Step(t, [t EXCEPT !.pc = "readtext", !.last = "capture_ok",
                                 !.applies = Bump(@)])
            /\ Output("none", "none", "none")
            /\ UNCHANGED running
       ELSE CheckStep(t, [t EXCEPT !.ocr = "skipped", !.applies = Bump(@)],
                      check_desired_stats(EmptyDict, desired_arg), "info")
    /\ UNCHANGED << reader, apply_button_coords, change_button_coords,
                    detailed_logging, stat_counter, unmapped_ocr_counter,
                    game_window, desired_arg, callers, stopReturned >>

\* What detect_text_in_image makes of the engine's answer.  ocr = 0: the
\* engine raises, readtext logs it and returns []; otherwise the engine
\* returns OcrResults[ocr].  An empty list is not parsed.
Detected(ocr) ==
    IF ocr = 0 \/ OcrResults[ocr] = << >>
    THEN [found_stats |-> EmptyDict, unmapped |-> << >>]
    ELSE Parsed[ocr]

\* The counters after the parse and the tracking loops, and the goal
\* evaluation on the stats found.
Tracked(t, ocr, detected) ==
    /\ unmapped_ocr_counter' = IncAll(unmapped_ocr_counter, detected.unmapped)
    /\ stat_counter' = TrackStats(stat_counter, detected.found_stats)
    /\ CheckStep(t, [t EXCEPT !.ocr = IF ocr = 0 THEN "error" ELSE "ok"],
                 check_desired_stats(detected.found_stats, desired_arg),
                 IF ocr = 0 \/ detailed_logging THEN "info" ELSE "none")

\* self.reader.readtext(image) is called: the handle is read and the engine
\* set to work on the image (line 195).
WReadtext(t) ==
    /\ t.pc = "readtext"
    /\ IF reader = None
       THEN \* AttributeError: 'NoneType' object has no attribute 'readtext'
            /\ Exit(t)
            /\ Output("none", "none", "exception")
       ELSE /\ Step(t, [t EXCEPT !.pc = "detect"])
            /\ Output("none", "none", "none")
    /\ UNCHANGED << ctrl, game_window, desired_arg, callers, stopReturned >>

\* readtext returns; the parse, the tracking and the goal evaluation
\* (lines 195-208, 248-311).
WDetected(t, ocr) ==
    /\ t.pc = "detect"
    /\ Tracked(t, ocr, Detected(ocr))
    /\ WithinCount(unmapped_ocr_counter')
    /\ WithinCount(stat_counter')
    /\ UNCHANGED << reader, apply_button_coords, change_button_coords,
                    detailed_logging, game_window, desired_arg, callers, stopReturned >>

\* The rest of stop() on the worker thread up to the test of the counter;
\* with no stat counted, the dialog and the break (lines 92-99, 314-315).
WStopCleanup(t) ==
    /\ t.pc = "stop_cleanup"
    /\ t \in Workers
    /\ StopCleanup
    /\ IF stat_counter = EmptyDict
       THEN /\ threads' = AllClicksReset(threads (-) SetToBag({t}))
            /\ Output("stopped", "none", "break")
       ELSE /\ threads' = (threads (-) SetToBag({t}))
                              (+) SetToBag({[t EXCEPT !.pc = "stop_summary"]})
            /\ Output("stopped", "none", "none")
    /\ stopAlone' = FALSE
    /\ UNCHANGED callers

\* The summary of stop() on the worker thread, the dialog and the break
\* (lines 100-161, 314-315).
WStopSummary(t) ==
    /\ t.pc = "stop_summary"
    /\ t \in Workers
    /\ StopSummary
    /\ threads' = AllClicksReset(threads (-) SetToBag({t}))
    /\ stopAlone' = FALSE
    /\ Output("summary", "none", "break")
    /\ UNCHANGED callers

\* The click of change that rerolls (lines 317-319).
WChange(t) ==
    /\ t.pc = "change"
    /\ Step(t, [t EXCEPT !.pc = "loop", !.last = "change", !.ocr = "none",
                         !.changes = Bump(@)])
    /\ Output("none", "none", "none")
    /\ UNCHANGED << ctrl, game_window, desired_arg, callers, stopReturned >>

(***************************************************************************)
(* The program                                                             *)
(***************************************************************************)
\* connect_to_game is called only when no window is connected.
ConnectChoices ==
    IF game_window THEN { [ok |-> TRUE, window |-> TRUE] } ELSE ConnectOutcomes

\* SkillRerollUI.create_ui (ui.py:123-151): each category list is fetched and
\* the empty option of its dropdown is inserted into it at index 0.
CreateUi ==
    /\ ui_pc = "create_ui"
    /\ ui_pc' = "idle"
    /\ offensive_skills' = << << >> >> \o get_offensive_skills
    /\ defensive_skills' = << << >> >> \o get_defensive_skills
    /\ Output("none", "none", "none")
    /\ UNCHANGED << ctrl, game_window, desired_arg, key_pc, threads, history >>

Start ==
    \E apply_coords \in ApplyChoices, change_coords \in ChangeChoices,
       logging \in BOOLEAN, conn \in ConnectChoices :
        StartCall(apply_coords, change_coords, logging, conn)

StartEngine == \E engine_ok \in BOOLEAN : StartInit(engine_ok)

Apply == \E t \in Workers, image_ok \in BOOLEAN : WApply(t, image_ok)

Readtext == \E t \in Workers : WReadtext(t)

Detect == \E t \in Workers, ocr \in 0..Len(OcrResults) : WDetected(t, ocr)

Next ==
    \/ CreateUi /\ UNCHANGED call
    \/ Start /\ UNCHANGED << call, catalog >>
    \/ StartEngine /\ UNCHANGED << call, catalog >>
    \/ UiStop /\ UNCHANGED << call, catalog >>
    \/ UiStopCleanup /\ UNCHANGED << call, catalog >>
    \/ UiStopSummary /\ UNCHANGED << call, catalog >>
    \/ EmergencyStop /\ UNCHANGED << call, catalog >>
    \/ EmergencyStopCleanup /\ UNCHANGED << call, catalog >>
    \/ EmergencyStopSummary /\ UNCHANGED << call, catalog >>
    \/ \E t \in Workers : WBegin(t) /\ UNCHANGED << call, catalog >>
    \/ \E t \in Workers : WLoop(t) /\ UNCHANGED << call, catalog >>
    \/ Apply /\ UNCHANGED << call, catalog >>
    \/ Readtext /\ UNCHANGED << call, catalog >>
    \/ Detect /\ UNCHANGED << call, catalog >>
    \/ \E t \in Workers : WStopCleanup(t) /\ UNCHANGED << call, catalog >>
    \/ \E t \in Workers : WStopSummary(t) /\ UNCHANGED << call, catalog >>
    \/ \E t \in Workers : WChange(t) /\ UNCHANGED << call, catalog >>

Spec == Init /\ [][Next]_vars

\* A step of a worker thread.
WorkerNext ==
    /\ \E t \in Workers :
          \/ WBegin(t)
          \/ WLoop(t)
          \/ \E image_ok \in BOOLEAN : WApply(t, image_ok)
          \/ WReadtext(t)
          \/ \E ocr \in 0..Len(OcrResults) : WDetected(t, ocr)
          \/ WStopCleanup(t)
          \/ WStopSummary(t)
          \/ WChange(t)
    /\ UNCHANGED << call, catalog >>

\* The worker threads are scheduled: a thread that can step does step.
FairSpec == Spec /\ WF_vars(WorkerNext)

(***************************************************************************)
(* The functions of the program called on their own, outside a run         *)
(***************************************************************************)
\* The controller as constructed, with no run on, and the catalog as loaded.
Constructed ==
    /\ running = FALSE
    /\ reader = None
    /\ apply_button_coords = NoCoords
    /\ change_button_coords = NoCoords
    /\ detailed_logging = FALSE
    /\ stat_counter = EmptyDict
    /\ unmapped_ocr_counter = EmptyDict
    /\ game_window = FALSE
    /\ desired_arg = DesiredNone
    /\ ui_pc = "idle"
    /\ key_pc = "idle"
    /\ threads = EmptyBag
    /\ stopReturned = FALSE
    /\ stopAlone = FALSE
    /\ status = "info"
    /\ ret = "none"
    /\ exited = "none"
    /\ offensive_skills = OFFENSIVE_SKILLS
    /\ defensive_skills = DEFENSIVE_SKILLS

\* A call of a function on its own leaves the controller alone.
Still ==
    UNCHANGED << ctrl, game_window, desired_arg, callers, threads, history, outputs,
                 catalog >>

\* The longest string given to calculate_string_similarity.
MaxLen == 3

Alphabet == {"a", "b", "c"}

Strings(n) == UNION { [1..k -> Alphabet] : k \in 0..n }

SimilarityArgs ==
    { [fn |-> "calculate_string_similarity", str1 |-> a, str2 |-> b] :
        a \in Strings(MaxLen), b \in Strings(MaxLen) }

SimilarityInit == Constructed /\ args \in SimilarityArgs /\ result = Pending

\* calculate_string_similarity(str1, str2)
Score ==
    /\ args.fn = "calculate_string_similarity"
    /\ ~result.done
    /\ result' = Returned(calculate_string_similarity(args.str1, args.str2))
    /\ UNCHANGED args
    /\ Still

SimilaritySpec == SimilarityInit /\ [][Score]_vars

CritDMG == <<"C","r","i","t","."," ","D","M","G">>

GoalNames == {Defense, CritDMG}

GoalValues == {199, 200, 201}

\* The maps of detected stats: each name absent or with one of the values.
GoalMaps == UNION { [names -> GoalValues] : names \in SUBSET GoalNames }

\* A slot is unset, or set to (display_stat_name, min_value, variation).
GoalSlots ==
    { << >> } \cup { << <<name, 200, <<"2","0","0">>>> >> : name \in GoalNames }

GoalArgs ==
    { [fn |-> "check_desired_stats", current_stats |-> current,
       desired_stats |-> [offensive |-> off, defensive |-> def]] :
        current \in GoalMaps, off \in GoalSlots, def \in GoalSlots }

GoalInit == Constructed /\ args \in GoalArgs /\ result = Pending

\* check_desired_stats(current_stats, desired_stats)
Evaluate ==
    /\ args.fn = "check_desired_stats"
    /\ ~result.done
    /\ result' = Returned(check_desired_stats(args.current_stats, args.desired_stats))
    /\ UNCHANGED args
    /\ Still

GoalSpec == GoalInit /\ [][Evaluate]_vars

\* The captures of one run.
MaxCaptures == 3

\* What a capture may hold: a defensive stat with one of two values, an
\* offensive stat, a stat of neither list.
TrackMaps ==
    { m \in UNION { [names -> {16, 30, 90, 200}] :
                      names \in SUBSET {Defense, CritDMG, ArrivalStat} } :
        /\ Defense \in DOMAIN m => m[Defense] \in {90, 200}
        /\ CritDMG \in DOMAIN m => m[CritDMG] = 16
        /\ ArrivalStat \in DOMAIN m => m[ArrivalStat] = 30 }

\* A run begins: no capture yet, the counter empty.
TrackInit ==
    /\ Constructed
    /\ args = [fn |-> "reroll_loop", captures |-> << >>]
    /\ result = Returned(EmptyDict)

\* One pass of the loop with a capture that detect_text_in_image parsed to
\* current_stats: the tracking loops (lines 254-279).
Capture(current_stats) ==
    /\ args.fn = "reroll_loop"
    /\ Len(args.captures) < MaxCaptures
    /\ args' = [args EXCEPT !.captures = Append(@, current_stats)]
    /\ result' = Returned(TrackStats(result.value, current_stats))
    /\ Still

TrackNext == \E current_stats \in TrackMaps : Capture(current_stats)

TrackSpec == TrackInit /\ [][TrackNext]_vars

\* unmapped_ocr_counter=None, or a dict, which the call updates in place.
NotSupplied == [supplied |-> FALSE]

Supplied(dict) == [supplied |-> TRUE, dict |-> dict]

\* if unmapped_ocr_counter is not None: one increment per unmapped text
CountUnmapped(counter, texts) ==
    IF counter.supplied THEN Supplied(IncAll(counter.dict, texts)) ELSE counter

\* What the caller of parse_detected_text has after the call: the dict
\* returned and the counter it passed.
ParseReturn(parsed, counter) ==
    [found_stats |-> parsed.found_stats,
     unmapped_ocr_counter |-> CountUnmapped(counter, parsed.unmapped)]

\* parse_detected_text(detected_items, unmapped_ocr_counter=...)
Parse ==
    /\ args.fn = "parse_detected_text"
    /\ ~result.done
    /\ result' = Returned(ParseReturn(parse_detected_text(args.detected_items),
                                      args.unmapped_ocr_counter))
    /\ UNCHANGED args
    /\ Still

\* Texts without a digit: catalog names, misread names that score 11/14, 5/8,
\* exactly 3/5 and 4/7, one that scores 9/14 with two catalog names, one that
\* scores 1 with two, the arrival label without its number, and tokens that
\* match nothing.
LabelTexts ==
    { Defense,
      <<"H","e","a","l">>,
      <<"D","e","f","n","s","e">>,
      <<"H","a","l">>,
      <<"a","b","s","o","r","b","u","w">>,
      <<"d","f","e","n","s">>,
      <<"e","z","e","n","s","e">>,
      <<"D","a","m","a","g","e"," ","A","b","s","o","r","b">>,
      <<"A","r","r","i","v","a","l"," ","s","k","i","l","l"," ","C","o","o","l"," ","t","i","m","e"," ","d","e","c","r","e","a","s","e","d">>,
      <<"x","y","z">>,
      << >> }

\* The arrival label as the engine reads it, up to its number.
ArrivalPrefixes ==
    { <<"A","r","r","i","v","a","l"," ","s","k","i","l","l"," ","C","o","o","l"," ","t","i","m","e"," ","d","e","c","r","e","a","s","e","d"," ">>,
      <<"A","R","R","I","V","A","L"," ","C","O","O","L"," ","T","I","M","E"," ">>,
      <<"c","o","o","l","t","i","m","e"," ","a","r","r","i","v","a","l"," ">> }

ArrivalNumbers == {5, 30, 120}

ArrivalSuffixes == { << >>, <<"s">> }

ArrivalTexts ==
    { prefix \o StrOf(n) \o suffix :
        prefix \in ArrivalPrefixes, n \in ArrivalNumbers, suffix \in ArrivalSuffixes }

\* A capture of one item, a capture of a label with a value on its line, and
\* a capture of an arrival label with another value before or after it, on
\* its line or on the line above.
ItemLists ==
    { << Item(95, 105, text) >> : text \in LabelTexts \cup ArrivalTexts }
    \cup { << Item(95, 105, text), Item(95, 105, <<"+","2","0","0">>) >> :
             text \in LabelTexts }
    \cup { << Item(95, 105, text), Item(top, top + 10, <<"+","2","0","0">>) >> :
             text \in ArrivalTexts, top \in {65, 95} }
    \cup { << Item(top, top + 10, <<"+","2","0","0">>), Item(95, 105, text) >> :
             text \in ArrivalTexts, top \in {65, 95} }

ItemCounters == { NotSupplied, Supplied(EmptyDict), Supplied(<<"x","y","z">> :> 1) }

ItemArgs ==
    { [fn |-> "parse_detected_text", detected_items |-> items,
       unmapped_ocr_counter |-> counter] :
        items \in ItemLists, counter \in ItemCounters }

ItemInit == Constructed /\ args \in ItemArgs /\ result = Pending

ItemSpec == ItemInit /\ [][Parse]_vars

\* The most items in a capture.
MaxItems == 4

\* What the engine may detect in one capture: a label, a misreading of it
\* on another line, a second label, and values at 30, 49.5 and 50 units from
\* the first label's line (two of them at 30, one above and one below).
ParseItems ==
    { Item(95, 105, <<"H","e","a","l">>),
      Item(155, 165, <<"H","a","l">>),
      Item(95, 105, Defense),
      Item(65, 75, <<"+","2","0","0">>),
      Item(125, 135, <<"9","0">>),
      Item(149, 150, <<"+","7","%">>),
      Item(145, 155, <<"1","2","s">>) }

\* The lists of up to n different items.
Orders(S, n) ==
    UNION { { s \in [1..k -> S] : \A i, j \in 1..k : i # j => s[i] # s[j] } :
              k \in 0..n }

ParseArgs ==
    { [fn |-> "parse_detected_text", detected_items |-> items,
       unmapped_ocr_counter |-> NotSupplied] :
        items \in Orders(ParseItems, MaxItems) }

ParseInit == Constructed /\ args \in ParseArgs /\ result = Pending

\* The list with the items at i and i + 1 exchanged.
Swap(items, i) ==
    [k \in DOMAIN items |->
        IF k = i THEN items[i + 1] ELSE IF k = i + 1 THEN items[i] ELSE items[k]]

\* What a call returned, and what the call before it returned.
ReturnedAfter(value, earlier) ==
    [done |-> TRUE, value |-> value, earlier |-> earlier]

\* parse_detected_text again, on the same items in another order.
Reorder(i) ==
    /\ args.fn = "parse_detected_text"
    /\ result.done
    /\ i \in 1..(Len(args.detected_items) - 1)
    /\ args' = [args EXCEPT !.detected_items = Swap(@, i)]
    /\ result' = ReturnedAfter(
                     ParseReturn(parse_detected_text(Swap(args.detected_items, i)),
                                 args.unmapped_ocr_counter),
                     result.value)
    /\ Still

ParseNext ==
    \/ Parse
    \/ \E i \in 1..(MaxItems - 1) : Reorder(i)

ParseSpec == ParseInit /\ [][ParseNext]_vars

\* Texts of letters of both cases, spaces, periods and digits.
NormalizeInit ==
    /\ Constructed
    /\ args \in { [fn |-> "normalize_text", text |-> text] :
                    text \in UNION { [1..k -> {"A", "a", "Z", " ", ".", "7"}] :
                                       k \in 0..MaxLen } }
    /\ result = Pending

\* normalize_text(text), and then normalize_text of what that returned.
Normalize ==
    /\ args.fn = "normalize_text"
    /\ "earlier" \notin DOMAIN result
    /\ result' = IF result.done
                 THEN ReturnedAfter(normalize_text(result.value), result.value)
                 ELSE Returned(normalize_text(args.text))
    /\ UNCHANGED args
    /\ Still

NormalizeSpec == NormalizeInit /\ [][Normalize]_vars

\* PaddleOCRWrapper.readtext on an engine that answers with `lines': the
\* lines whose confidence is above 0.5 (lines 53-61).  Confidence is in
\* tenths, as in Item.
readtext(lines) == SelectSeq(lines, LAMBDA line : line.confidence > 5)

\* Answers of the engine: up to MaxItems lines read with confidence 0.4, 0.5
\* or 0.6.
ReadInit ==
    /\ Constructed
    /\ args \in { [fn |-> "readtext", lines |-> lines] :
                    lines \in UNION { [1..k -> { [Item(95, 105, Defense)
                                                    EXCEPT !.confidence = c] :
                                                  c \in {4, 5, 6} }] :
                                        k \in 0..MaxItems } }
    /\ result = Pending

\* PaddleOCRWrapper.readtext(image)
Read ==
    /\ args.fn = "readtext"
    /\ ~result.done
    /\ result' = Returned(readtext(args.lines))
    /\ UNCHANGED args
    /\ Still

ReadSpec == ReadInit /\ [][Read]_vars

\* Texts with a digit: values as the game writes them, a name misread with a
\* digit in it, a token with two numbers.
ValueTexts ==
    { <<"+","2","0","0">>, <<"9","0">>, <<"+","7","%">>, <<"1","2","s">>,
      <<"H","e","a","1">>, <<"x","1","y","2","2">> }

ClassifyInit ==
    /\ Constructed
    /\ args \in { [fn |-> "parse_detected_text: first loop",
                   detected_items |-> << Item(top, top + 10, text) >>] :
                    top \in {95, 155},
                    text \in LabelTexts \cup ValueTexts \cup ArrivalTexts
                                \cup { KNOWN_SKILLS[i] : i \in DOMAIN KNOWN_SKILLS } }
    /\ result = Pending

\* The first loop of parse_detected_text (lines 153-218): stats_with_y,
\* values_with_y and the texts counted as unmapped.
ClassifyItems ==
    /\ args.fn = "parse_detected_text: first loop"
    /\ ~result.done
    /\ result' = Returned(ClassifyAll(args.detected_items))
    /\ UNCHANGED args
    /\ Still

ClassifySpec == ClassifyInit /\ [][ClassifyItems]_vars

\* No region: None, or the attribute not there yet.
NoRegion == << >>

\* The fields of the controller that capture_screen_region reads and writes.
RegionFields(detection_region, cached_region) ==
    [detection_region |-> detection_region, cached_region |-> cached_region]

\* set_detection_region(region) on a controller with the fields `self'.
set_detection_region(self, region) ==
    [image |-> NoRegion,
     self |-> [self EXCEPT !.detection_region = region]]

\* The region capture_screen_region caches when it has none cached: the
\* detection region if it is set, or else the window rectangle.
RegionToCache(self, rect) ==
    IF self.cached_region # NoRegion THEN self.cached_region
    ELSE IF self.detection_region # NoRegion THEN self.detection_region
    ELSE rect

\* capture_screen_region() on a controller with the fields `self': connected
\* is what is_connected() returns, rect what get_window_rect() would return
\* (NoRegion for None), grab_ok whether ImageGrab.grab returns an image.  The
\* image is written as the region it shows, NoRegion when None is returned.
capture_screen_region(self, connected, rect, grab_ok) ==
    IF ~connected THEN [image |-> NoRegion, self |-> self]
    ELSE IF RegionToCache(self, rect) = NoRegion
    THEN [image |-> NoRegion, self |-> self]
    ELSE IF grab_ok
    THEN [image |-> RegionToCache(self, rect),
          self |-> [self EXCEPT !.cached_region = RegionToCache(self, rect)]]
    ELSE [image |-> NoRegion, self |-> [self EXCEPT !.cached_region = NoRegion]]

\* The regions a user draws and the rectangles the window has.
Regions == { <<10, 10, 50, 50>>, <<20, 20, 60, 60>> }

WindowRects == { <<0, 0, 800, 600>>, <<100, 100, 900, 700>> }

\* The controller as __init__ leaves it: no detection region, nothing cached.
CaptureInit ==
    /\ Constructed
    /\ args = [fn |-> "__init__"]
    /\ result = Returned([image |-> NoRegion, self |-> RegionFields(NoRegion, NoRegion)])

SetDetectionRegion ==
    /\ args.fn \in {"__init__", "set_detection_region", "capture_screen_region"}
    /\ \E region \in Regions :
          /\ args' = [fn |-> "set_detection_region", region |-> region]
          /\ result' = Returned(set_detection_region(result.value.self, region))
    /\ Still

CaptureScreen ==
    /\ args.fn \in {"__init__", "set_detection_region", "capture_screen_region"}
    /\ \E connected, grab_ok \in BOOLEAN, rect \in WindowRects \cup {NoRegion} :
          /\ args' = [fn |-> "capture_screen_region", connected |-> connected,
                      rect |-> rect, grab_ok |-> grab_ok]
          /\ result' = Returned(capture_screen_region(result.value.self, connected,
                                                      rect, grab_ok))
    /\ Still

CaptureSpec == CaptureInit /\ [][SetDetectionRegion \/ CaptureScreen]_vars

(***************************************************************************)
(* Properties                                                              *)
(***************************************************************************)
\* Thread t clicks a button (lines 222, 236, 318).
Clicks(t) ==
    \/ WBegin(t)
    \/ WChange(t)
    \/ \E image_ok \in BOOLEAN : WApply(t, image_ok)

\* C1: in every interleaving of start(), stop(), emergency_stop() and worker
\* steps, at most one reroll_loop worker is live at any time.
OneWorkerAtMost == BagCardinality(threads) <= 1

\* C2: a start() that passes its checks while running is already true, with a
\* worker live, either returns failure without launching a worker or has the
\* existing worker stopped before it launches the new one: it never leaves a
\* second worker alongside the first.
StartWhileRunning ==
    [][(running /\ threads # EmptyBag /\ StartInit(TRUE))
        => \/ ret' = "start_false" /\ threads' = threads
           \/ BagCardinality(threads') <= 1]_vars

\* C3: a worker whose goal evaluation returned true has set running to false
\* and emitted the success message in that step, and clicks nothing more (it
\* is left with the rest of stop() and its exit); a worker whose goal
\* evaluation returned false is about to click change, clicks apply only after
\* that click, and does not click change twice in a row.
GoalDecides ==
    [][\A t \in Workers :
          /\ t.last = "goal_true" => t.pc \in {"stop_cleanup", "stop_summary"} /\ ~Clicks(t)
          /\ t.last = "goal_false" =>
                /\ t.pc = "change"
                /\ ~WBegin(t)
                /\ ~(\E image_ok \in BOOLEAN : WApply(t, image_ok))
          /\ t.last = "change" => ~WChange(t)
          /\ WChange(t) => t.last = "goal_false"
          /\ \A u \in BagToSet(threads') :
                (t.pc \in {"apply", "detect"} /\ Step(t, u) /\ u.last = "goal_true")
                    => running' = FALSE /\ status' = "success"]_vars

\* A worker has just found the goal satisfied.
GoalReached ==
    \E t \in Workers :
        /\ t.last = "goal_true"
        /\ t.pc = "stop_cleanup"
        /\ ~running
        /\ status = "success"

\* C4: once stop() has returned and running has stayed false, no worker clicks
\* apply more than once more or change more than once more; and whenever
\* running is false, either a start() sets it again or every worker
\* eventually exits.
StopTakesEffect ==
    /\ [](stopReturned => \A t \in Workers : t.applies <= 1 /\ t.changes <= 1)
    /\ (~running ~> (running \/ threads = EmptyBag))

\* A worker has clicked apply once and change once since stop() returned.
LastClicksAfterStop ==
    /\ stopReturned
    /\ \E t \in Workers : t.applies = 1 /\ t.changes = 1

\* C5: a start() with a coordinate pair missing, or whose connection to the
\* window fails, returns failure, leaves running, the stored coordinates, the
\* logging flag, both counters and the engine handle as they were and
\* launches no worker.
StartFailsClosed ==
    [][\A apply_coords \in ApplyChoices, change_coords \in ChangeChoices,
          logging \in BOOLEAN, conn \in ConnectOutcomes :
          ( /\ \/ apply_coords = NoCoords
               \/ change_coords = NoCoords
               \/ ~game_window /\ ~conn.ok
            /\ StartCall(apply_coords, change_coords, logging, conn) )
          => /\ ret' = "start_false"
             /\ UNCHANGED ctrl
             /\ UNCHANGED threads
             /\ ui_pc' = "idle"]_vars

\* A start() has just been refused in the middle of a run.
StartRefused ==
    /\ ret = "start_false"
    /\ status = "none"
    /\ running
    /\ apply_button_coords # NoCoords
    /\ stat_counter # EmptyDict
    /\ threads # EmptyBag

\* C6: when the construction of the engine fails inside start(), start()
\* returns failure with the error message, no step of that call sets running,
\* the engine handle is left None and no worker is launched.
EngineFailureKeepsStopped ==
    [][/\ StartInit(FALSE) =>
             /\ ret' = "start_false"
             /\ status' = "engine_error"
             /\ running' = running
             /\ reader' = None
             /\ threads' = threads
       /\ \A apply_coords \in ApplyChoices, change_coords \in ChangeChoices,
             logging \in BOOLEAN, conn \in ConnectOutcomes :
             StartCall(apply_coords, change_coords, logging, conn)
                 => running' = running /\ threads' = threads]_vars

\* The construction of the engine has just failed.
EngineFailed ==
    /\ status = "engine_error"
    /\ ret = "start_false"
    /\ reader = None
    /\ ~running
    /\ threads = EmptyBag

\* C7: no worker ends through an unhandled exception.
NoUnhandledException == exited # "exception"

\* C8: a worker whose OCR engine raised on the captured image does not click
\* change for that roll.
OcrErrorRetries == [][\A t \in Workers : t.ocr = "error" => ~WChange(t)]_vars

\* C9: a worker whose capture returned no image clicks nothing before it
\* captures again.
CaptureRetriesWithoutClick ==
    [][\A t \in Workers : t.last = "capture_failed" => ~Clicks(t)]_vars

\* C10: when stop() returns with no worker step since it began, in a run
\* started with a dictionary of desired stats, running is false, the engine
\* handle is None and both counters are empty.
StopClearsAll ==
    [][(UiStopReturns /\ stopAlone /\ ~IsNone(desired_arg))
        => /\ running' = FALSE
           /\ reader' = None
           /\ stat_counter' = EmptyDict
           /\ unmapped_ocr_counter' = EmptyDict]_vars

\* C11: when a successful start() has just launched its worker, the per-stat
\* occurrence counter and the unmatched-text counter are both empty.
CountersEmptyAtLaunch ==
    ret = "start_true" =>
        stat_counter = EmptyDict /\ unmapped_ocr_counter = EmptyDict

\* C12: an emergency_stop() called while running is false returns false,
\* changes no controller state, affects no worker and emits no status message;
\* and an emergency_stop() called right after another has returned returns
\* false.
EmergencyStopIdempotent ==
    [][EmergencyStop =>
          /\ ~running => /\ ret' = "estop_false"
                         /\ status' = "none"
                         /\ UNCHANGED << ctrl, threads, key_pc >>
          /\ ret \in {"estop_true", "estop_false"} => ret' = "estop_false"]_vars

\* C13: a stop() that began on a controller already stopped (a stop() had
\* returned and no start() has succeeded since, no worker is live, no
\* emergency_stop() is under way), in a run started with a dictionary of
\* desired stats, returns with running false, the engine handle None, both
\* counters empty, the stored coordinates as they were and no worker ended or
\* launched.
StopWhileIdle ==
    [][( /\ UiStopReturns
         /\ stopAlone
         /\ stopReturned
         /\ key_pc = "idle"
         /\ threads = EmptyBag
         /\ ret = "none"
         /\ ~IsNone(desired_arg) )
        => /\ running' = FALSE
           /\ reader' = None
           /\ stat_counter' = EmptyDict
           /\ unmapped_ocr_counter' = EmptyDict
           /\ UNCHANGED << apply_button_coords, change_button_coords >>
           /\ threads' = EmptyBag
           /\ exited' = "none"]_vars

\* C14: the goal evaluator returns true exactly when every set slot (name,
\* min_value) has its name in the map of detected stats with a value >=
\* min_value: an unset slot asks nothing, a value equal to min_value is
\* enough, a missing name or a smaller value makes the result false.
GoalEvaluation ==
    (args.fn = "check_desired_stats" /\ result.done) =>
        LET current == args.current_stats
            slots == args.desired_stats.offensive \o args.desired_stats.defensive
        IN  /\ ~result.value.raised
            /\ result.value.result <=>
                   \A i \in DOMAIN slots :
                       /\ slots[i][1] \in DOMAIN current
                       /\ current[slots[i][1]] >= slots[i][2]

\* The evaluator has returned true for two set slots, one of them met by a
\* value equal to its min_value.
GoalMetAtMinimum ==
    /\ args.fn = "check_desired_stats"
    /\ result.done
    /\ result.value.result
    /\ args.desired_stats.offensive # << >>
    /\ args.desired_stats.defensive # << >>
    /\ args.current_stats[args.desired_stats.defensive[1][1]]
           = args.desired_stats.defensive[1][2]

\* C19: the similarity score lies in [0, 1]; it is 0 when either string is
\* empty and 1 when the strings are equal and not empty; otherwise it is
\* (characters of a that occur in b) / max(len a, len b)
\* - 0.5 * |len a - len b| / max(len a, len b), clamped to [0, 1].
SimilarityScore ==
    (args.fn = "calculate_string_similarity" /\ result.done) =>
        LET a == args.str1
            b == args.str2
            score == result.value
            longest == IF Len(a) >= Len(b) THEN Len(a) ELSE Len(b)
            apart == IF Len(a) >= Len(b) THEN Len(a) - Len(b) ELSE Len(b) - Len(a)
            occur == Cardinality({ i \in 1..Len(a) : \E j \in 1..Len(b) : b[j] = a[i] })
        IN  /\ score.den > 0
            /\ 0 <= score.num
            /\ score.num <= score.den
            /\ (a = << >> \/ b = << >>) => score.num = 0
            /\ (a = b /\ a # << >>) => score.num = score.den
            /\ (a # << >> /\ b # << >> /\ a # b) =>
                   IF 2 * occur - apart <= 0 THEN score.num = 0
                   ELSE IF 2 * occur - apart >= 2 * longest THEN score.num = score.den
                   ELSE score.num * (2 * longest) = (2 * occur - apart) * score.den

\* A score strictly between 0 and 1 has been returned for a string with a
\* repeated character.
SimilarityPartial ==
    /\ args.fn = "calculate_string_similarity"
    /\ result.done
    /\ 0 < result.value.num
    /\ result.value.num < result.value.den
    /\ \E i, j \in DOMAIN args.str1 : i # j /\ args.str1[i] = args.str1[j]

\* The key "{stat_name} +{value}" of each entry a capture may hold.
CounterKeys ==
    << [stat |-> Defense, value |-> 200,
        key |-> <<"D","e","f","e","n","s","e"," ","+","2","0","0">>],
       [stat |-> Defense, value |-> 90,
        key |-> <<"D","e","f","e","n","s","e"," ","+","9","0">>],
       [stat |-> CritDMG, value |-> 16,
        key |-> <<"C","r","i","t","."," ","D","M","G"," ","+","1","6">>],
       [stat |-> ArrivalStat, value |-> 30,
        key |-> <<"A","r","r","i","v","a","l"," ","S","k","i","l","l"," ",
                  "C","o","o","l"," ","T","i","m","e"," ",
                  "d","e","c","r","e","a","s","e","d","."," ","+","3","0">>] >>

Similarities(text) ==
    [i \in DOMAIN KNOWN_SKILLS |->
        calculate_string_similarity(normalize_text(text),
                                    normalize_text(KNOWN_SKILLS[i]))]

\* The first place of a list of scores that holds its maximum.
FirstMaximum(sims) ==
    CHOOSE i \in DOMAIN sims :
        /\ \A j \in DOMAIN sims : FracGE(sims[i], sims[j])
        /\ \A j \in 1..(i - 1) : FracGT(sims[i], sims[j])

\* What the call must have returned for a capture whose first item is a text
\* with the given scores: accepted, the text is a label under the catalog
\* name at the first maximum, which takes the value on its line if there is
\* one, and the counter is as it was; rejected, no label, and the counter, if
\* there is one, has counted the text once more.
AcceptanceAsScored(text, sims, items, counter, returned) ==
    IF \E i \in DOMAIN sims : FracGE(sims[i], Threshold)
    THEN /\ returned.found_stats =
                IF Len(items) = 2
                THEN (KNOWN_SKILLS[FirstMaximum(sims)] :> 200)
                ELSE EmptyDict
         /\ returned.unmapped_ocr_counter = counter
    ELSE /\ returned.found_stats = EmptyDict
         /\ returned.unmapped_ocr_counter =
                IF counter.supplied
                THEN Supplied(DictInc(counter.dict, text))
                ELSE NotSupplied

\* C16: a text without a digit is accepted as a label exactly when its highest
\* similarity to a catalog name is at least 0.6, under the first catalog name
\* that has that similarity; otherwise it gives no label and is counted only
\* in the unmatched counter, when one is supplied.
LabelAcceptance ==
    (/\ args.fn = "parse_detected_text"
     /\ result.done
     /\ ~HasDigitRun(args.detected_items[1].text))
    => AcceptanceAsScored(args.detected_items[1].text,
                          Similarities(args.detected_items[1].text),
                          args.detected_items, args.unmapped_ocr_counter,
                          result.value)

\* A text that scores 9/14 with Defense and with Evasion is read as Defense.
TiedLabelAccepted ==
    /\ args.fn = "parse_detected_text"
    /\ result.done
    /\ Len(args.detected_items) = 2
    /\ args.detected_items[1].text = <<"e","z","e","n","s","e">>
    /\ FracGE(Similarities(<<"e","z","e","n","s","e">>)[FirstMaximum(Similarities(<<"e","z","e","n","s","e">>))], Threshold)
    /\ \E i, j \in DOMAIN KNOWN_SKILLS :
           /\ i < j
           /\ Similarities(<<"e","z","e","n","s","e">>)[i] = Similarities(<<"e","z","e","n","s","e">>)[j]
           /\ i = FirstMaximum(Similarities(<<"e","z","e","n","s","e">>))
    /\ result.value.found_stats = (Defense :> 200)

\* C17: a capture of one item whose text contains arrival, cool and time in
\* any case and an integer N, with or without a trailing s, parses to the
\* single entry Arrival Skill Cool Time decreased. -> N.
ArrivalSpecialCase ==
    \A prefix \in ArrivalPrefixes, n \in ArrivalNumbers, suffix \in ArrivalSuffixes :
        (/\ args.fn = "parse_detected_text"
         /\ result.done
         /\ args.detected_items = << Item(95, 105, prefix \o StrOf(n) \o suffix) >>)
        => result.value.found_stats = (ArrivalStat :> n)

\* ARRIVAL COOL TIME 120s has been parsed.
ArrivalUpperCaseParsed ==
    /\ args.fn = "parse_detected_text"
    /\ result.done
    /\ args.detected_items = << Item(95, 105, <<"A","R","R","I","V","A","L"," ","C","O","O","L"," ","T","I","M","E"," ","1","2","0","s">>) >>
    /\ result.value.found_stats = (ArrivalStat :> 120)

\* The distance, doubled, between a label and a value candidate.
Apart(label, candidate) == Abs(label.y - candidate.y)

\* The first of the value candidates nearest to a label.
Nearest(label, values) ==
    CHOOSE i \in DOMAIN values :
        /\ \A j \in DOMAIN values : Apart(label, values[i]) <= Apart(label, values[j])
        /\ \A j \in 1..(i - 1) : Apart(label, values[i]) < Apart(label, values[j])

\* A label has a value candidate nearer than the pairing distance.
Pairs(label, values) ==
    /\ values # << >>
    /\ Apart(label, values[Nearest(label, values)]) < 2 * PairingDistance

\* Every entry of the map comes from a label that pairs.
OnlyPairedNames(labels, values, found_stats) ==
    \A name \in DOMAIN found_stats :
        \E k \in DOMAIN labels :
            labels[k].stat_name = name /\ Pairs(labels[k], values)

\* Every label that pairs has its nearest value in the map.
EveryLabelPaired(labels, values, found_stats) ==
    /\ \A k \in DOMAIN labels :
           Pairs(labels[k], values)
           => /\ labels[k].stat_name \in DOMAIN found_stats
              /\ found_stats[labels[k].stat_name]
                     = values[Nearest(labels[k], values)].value
    /\ OnlyPairedNames(labels, values, found_stats)

\* The last label that pairs, of those with its name, has its nearest value
\* in the map.
LastLabelPaired(labels, values, found_stats) ==
    /\ \A k \in DOMAIN labels :
           (/\ Pairs(labels[k], values)
            /\ \A l \in (k + 1)..Len(labels) :
                   labels[l].stat_name = labels[k].stat_name
                   => ~Pairs(labels[l], values))
           => /\ labels[k].stat_name \in DOMAIN found_stats
              /\ found_stats[labels[k].stat_name]
                     = values[Nearest(labels[k], values)].value
    /\ OnlyPairedNames(labels, values, found_stats)

\* The labels and the value candidates of a capture, in item order.
Candidates(items) == ClassifyAll(items)

\* C15 as stated: every accepted label whose nearest value candidate (the
\* first of equally near ones) is nearer than 50 has that value under its
\* canonical name in the output, and a name no label pairs for has no entry.
NearestValuePairing ==
    (args.fn = "parse_detected_text" /\ result.done)
    => EveryLabelPaired(Candidates(args.detected_items).stats,
                        Candidates(args.detected_items).values,
                        result.value.found_stats)

\* C15, amended: of the accepted labels with one canonical name whose nearest
\* value candidate (the first of equally near ones) is nearer than 50, the
\* last in item order has that value under the name in the output, and a name
\* no label pairs for has no entry.
LastNearestValuePairing ==
    (args.fn = "parse_detected_text" /\ result.done)
    => LastLabelPaired(Candidates(args.detected_items).stats,
                       Candidates(args.detected_items).values,
                       result.value.found_stats)

\* Two readings of Heal on different lines, each with its own value: the
\* map holds the value of the second.
SecondLabelWins ==
    /\ args.fn = "parse_detected_text"
    /\ result.done
    /\ args.detected_items
           = << Item(95, 105, <<"H","e","a","l">>), Item(65, 75, <<"+","2","0","0">>),
                Item(155, 165, <<"H","a","l">>), Item(145, 155, <<"1","2","s">>) >>
    /\ result.value.found_stats = (<<"H","e","a","l">> :> 12)

\* No label that pairs has two nearest value candidates with different
\* values, and no two labels that pair have the same name and different
\* nearest values.
Unambiguous(labels, values) ==
    /\ \A k \in DOMAIN labels :
           Pairs(labels[k], values)
           => \A j \in DOMAIN values :
                  Apart(labels[k], values[j])
                      = Apart(labels[k], values[Nearest(labels[k], values)])
                  => values[j].value = values[Nearest(labels[k], values)].value
    /\ \A k, l \in DOMAIN labels :
           (/\ labels[k].stat_name = labels[l].stat_name
            /\ Pairs(labels[k], values)
            /\ Pairs(labels[l], values))
           => values[Nearest(labels[k], values)].value
                  = values[Nearest(labels[l], values)].value

\* C20 as stated: parse_detected_text returns the same map for the same items
\* in another order.
OrderIrrelevant ==
    (args.fn = "parse_detected_text" /\ result.done /\ "earlier" \in DOMAIN result)
    => result.value.found_stats = result.earlier.found_stats

\* C20, amended: parse_detected_text returns the same map for the same items
\* in another order, when no label that pairs has two equally near nearest
\* value candidates with different values and no two labels that pair share a
\* canonical name with different nearest values.
OrderIrrelevantWhenUnambiguous ==
    (/\ args.fn = "parse_detected_text"
     /\ result.done
     /\ "earlier" \in DOMAIN result
     /\ Unambiguous(Candidates(args.detected_items).stats,
                    Candidates(args.detected_items).values))
    => result.value.found_stats = result.earlier.found_stats

\* Two labels and their values, parsed again with the values first.
ReorderedSameMap ==
    /\ args.fn = "parse_detected_text"
    /\ result.done
    /\ "earlier" \in DOMAIN result
    /\ args.detected_items
           = << Item(65, 75, <<"+","2","0","0">>), Item(95, 105, Defense),
                Item(145, 155, <<"1","2","s">>), Item(155, 165, <<"H","a","l">>) >>
    /\ Unambiguous(Candidates(args.detected_items).stats,
                   Candidates(args.detected_items).values)
    /\ result.value.found_stats = (Defense :> 200) @@ (<<"H","e","a","l">> :> 12)
    /\ result.earlier.found_stats = result.value.found_stats

\* C23: once stop() has returned and running has stayed false, no worker's
\* pass writes the per-stat counter or the unmatched-text counter.
NoCounterWriteAfterStop ==
    [][\A t \in Workers, ocr \in 0..Len(OcrResults) :
          (stopReturned /\ WDetected(t, ocr))
              => UNCHANGED << stat_counter, unmapped_ocr_counter >>]_vars

\* C21: normalize_text of a text of letters of both cases, spaces, periods
\* and digits has no uppercase letter, no space and no period, and
\* normalize_text of it is the same text again.
NormalizeIdempotent ==
    (args.fn = "normalize_text" /\ result.done)
    => /\ \A i \in DOMAIN result.value :
              /\ result.value[i] \notin {" ", "."}
              /\ \A j \in DOMAIN UpperChars : result.value[i] # UpperChars[j]
       /\ "earlier" \in DOMAIN result => result.value = result.earlier

\* A text with an uppercase letter, a space and a period, normalized twice.
NormalizedTwice ==
    /\ args.fn = "normalize_text"
    /\ args.text = <<"A", " ", ".">>
    /\ "earlier" \in DOMAIN result
    /\ result.earlier = <<"a">>
    /\ result.value = <<"a">>

\* C22: the lines that readtext hands to the parser are exactly those read
\* with a confidence of 0.5 or more.
ConfidenceFilter ==
    (args.fn = "readtext" /\ result.done)
    => result.value = SelectSeq(args.lines, LAMBDA line : line.confidence >= 5)

\* C24: as long as its captures succeed, a worker's clicks and captures go
\* change, (apply, capture, change)*: its first event is the click of change,
\* it clicks apply (and captures) only right after a click of change, and it
\* clicks change again only after a capture.
ClickPattern ==
    [][\A t \in Workers :
          /\ WBegin(t) => t.last = "none"
          /\ t.last = "none" => ~WChange(t)
          /\ \A image_ok \in BOOLEAN :
                 (WApply(t, image_ok) /\ t.last # "capture_failed")
                     => t.last = "change"
          /\ WChange(t) => t.last \in {"goal_false"} /\ t.ocr # "none"]_vars

\* The only worker, whose captures have all succeeded, has captured a second
\* time: the first capture was read as an unknown token and the goal not met.
SecondCapture ==
    /\ BagCardinality(threads) = 1
    /\ ~stopReturned
    /\ unmapped_ocr_counter # EmptyDict
    /\ \E t \in Workers :
           /\ t.pc = "readtext"
           /\ t.last = "capture_ok"
           /\ t.applies = 0

\* C25: a pass whose capture fails runs no detection, writes no counter and
\* evaluates no goal: the worker says so and goes back to the test of the
\* running flag, from where it tries again if the flag is set and ends if it
\* is not.
FailedCaptureRetries ==
    [][\A t \in Workers :
          /\ \A image_ok \in BOOLEAN :
                 (WApply(t, image_ok) /\ ~(game_window /\ image_ok))
                     => /\ UNCHANGED << stat_counter, unmapped_ocr_counter, running >>
                        /\ status' = "info"
                        /\ exited' = "none"
                        /\ \E u \in BagToSet(threads') :
                               /\ Step(t, u)
                               /\ u.pc = "loop"
                               /\ u.last = "capture_failed"
                               /\ u.ocr = "none"
          /\ t.last = "capture_failed"
                 => /\ t.pc \in {"loop", "apply"}
                    /\ t.ocr = "none"
          /\ (t.last = "capture_failed" /\ WLoop(t))
                 => IF running
                    THEN \E u \in BagToSet(threads') : Step(t, u) /\ u.pc = "apply"
                    ELSE /\ threads' = threads (-) SetToBag({t})
                         /\ exited' = "loop_end"]_vars

\* A worker whose capture failed has found the flag set and is about to try
\* again, with nothing counted.
RetryingCapture ==
    /\ running
    /\ stat_counter = EmptyDict
    /\ unmapped_ocr_counter = EmptyDict
    /\ \E t \in Workers :
           /\ t.last = "capture_failed"
           /\ t.pc = "apply"
           /\ t.ocr = "none"

\* C26: in a run started with neither slot set, the pass of a worker whose
\* capture succeeded ends with the success message and running false,
\* whatever the capture was read as, and that worker does not click change
\* afterwards.
NoTargetStopsAtFirstCapture ==
    [][desired_arg = [offensive |-> << >>, defensive |-> << >>]
        => \A t \in Workers :
              /\ t.last # "goal_false"
              /\ ~WChange(t)
              /\ WReadtext(t) => exited' = "none"
              /\ \A u \in BagToSet(threads') :
                     (/\ Step(t, u)
                      /\ \/ \E ocr \in 0..Len(OcrResults) : WDetected(t, ocr)
                         \/ WApply(t, TRUE) /\ game_window /\ reader = None)
                     => /\ u.last = "goal_true"
                        /\ u.pc = "stop_cleanup"
                        /\ status' = "success"
                        /\ running' = FALSE]_vars

\* C27: an emergency_stop() that found running true, with no start() or
\* stop() of the UI thread at work beside it, returns true with the emergency
\* message and leaves running false, the engine handle None and both
\* counters empty.
EmergencyStopAsStop ==
    [][(EmergencyStopReturns /\ ~running /\ ui_pc = "idle")
        => /\ ret' = "estop_true"
           /\ status' = "emergency"
           /\ running' = FALSE
           /\ reader' = None
           /\ stat_counter' = EmptyDict
           /\ unmapped_ocr_counter' = EmptyDict]_vars

\* C28: the goal evaluator emits one match message for each set slot when it
\* returns true, and none when it returns false, also when one of two set
\* slots matched.
MatchMessages ==
    (args.fn = "check_desired_stats" /\ result.done)
    => result.value.messages =
           IF result.value.result
           THEN Len(args.desired_stats.offensive \o args.desired_stats.defensive)
           ELSE 0

\* The evaluator has returned false, with no message, for two set slots of
\* which the offensive one is met.
PartialMatchSilent ==
    /\ args.fn = "check_desired_stats"
    /\ result.done
    /\ ~result.value.result
    /\ result.value.messages = 0
    /\ args.desired_stats.offensive # << >>
    /\ args.desired_stats.defensive # << >>
    /\ args.desired_stats.offensive[1][1] \in DOMAIN args.current_stats
    /\ args.current_stats[args.desired_stats.offensive[1][1]]
           >= args.desired_stats.offensive[1][2]

\* C29: an item that is not an arrival label with its number is a value
\* candidate or a label candidate and never both: with a digit in its text
\* it is a value (the number of its first run of digits) and neither a label
\* nor an unmatched text; without one it is a label or an unmatched text and
\* not a value.
ValueOrLabel ==
    (/\ args.fn = "parse_detected_text: first loop"
     /\ result.done
     /\ args.detected_items[1].text \notin ArrivalTexts)
    => IF \E i \in DOMAIN args.detected_items[1].text :
              args.detected_items[1].text[i]
                  \in {"0", "1", "2", "3", "4", "5", "6", "7", "8", "9"}
       THEN /\ Len(result.value.values) = 1
            /\ result.value.values[1].value
                   = IntOf(FirstDigitRun(args.detected_items[1].text))
            /\ result.value.stats = << >>
            /\ result.value.unmapped = << >>
       ELSE /\ result.value.values = << >>
            /\ Len(result.value.stats) + Len(result.value.unmapped) = 1

\* Hea1, a misreading of Heal with a digit in it, has been taken as the
\* value 1 and not as a label.
MisreadNameIsValue ==
    /\ args.fn = "parse_detected_text: first loop"
    /\ result.done
    /\ args.detected_items[1].text = <<"H","e","a","1">>
    /\ result.value.values = << [y |-> 200, value |-> 1] >>
    /\ result.value.stats = << >>
    /\ result.value.unmapped = << >>

\* C30: when two accepted labels of one capture have the same canonical
\* name, each is paired on its own with its nearest value candidate among
\* all of them; if the later one in item order pairs, the output holds its
\* value under the name, and if only the earlier one pairs, the output holds
\* the value of the earlier one.
SameNamePairedIndependently ==
    (args.fn = "parse_detected_text" /\ result.done)
    => LET labels == Candidates(args.detected_items).stats
           values == Candidates(args.detected_items).values
           found_stats == result.value.found_stats
       IN  \A k, l \in DOMAIN labels :
               (/\ k < l
                /\ labels[k].stat_name = labels[l].stat_name
                /\ \A n \in DOMAIN labels :
                       labels[n].stat_name = labels[k].stat_name => n \in {k, l})
               => /\ Pairs(labels[l], values)
                     => /\ labels[l].stat_name \in DOMAIN found_stats
                        /\ found_stats[labels[l].stat_name]
                               = values[Nearest(labels[l], values)].value
                  /\ (Pairs(labels[k], values) /\ ~Pairs(labels[l], values))
                     => /\ labels[k].stat_name \in DOMAIN found_stats
                        /\ found_stats[labels[k].stat_name]
                               = values[Nearest(labels[k], values)].value

\* Two readings of Heal and one value, within reach of the first reading
\* only: the map holds that value, though the second reading came later.
OnlyFirstLabelPairs ==
    /\ args.fn = "parse_detected_text"
    /\ result.done
    /\ args.detected_items
           = << Item(95, 105, <<"H","e","a","l">>), Item(155, 165, <<"H","a","l">>),
                Item(65, 75, <<"+","2","0","0">>) >>
    /\ result.value.found_stats = (<<"H","e","a","l">> :> 200)

\* The entries of a list.
Entries(list) == { list[i] : i \in DOMAIN list }

\* C31: in every reachable state the catalog is as it was loaded and is
\* consistently categorised: every known skill name is in exactly one of the
\* offensive and the defensive list, the two lists have no entry in common,
\* and neither list has an entry that is not a known skill name.
CatalogCategorised ==
    /\ offensive_skills = OFFENSIVE_SKILLS
    /\ defensive_skills = DEFENSIVE_SKILLS
    /\ \A name \in Entries(KNOWN_SKILLS) :
           (name \in Entries(offensive_skills)) # (name \in Entries(defensive_skills))
    /\ Entries(offensive_skills) \cap Entries(defensive_skills) = {}
    /\ Entries(offensive_skills) \cup Entries(defensive_skills)
           \subseteq Entries(KNOWN_SKILLS)

\* C32: every key of the map parse_detected_text returns is a canonical
\* name of the stat catalog, a member of get_all_skills(), whatever the
\* detected items, those of the arrival special case included.
KeysAreCatalogNames ==
    (args.fn = "parse_detected_text" /\ result.done)
    => DOMAIN result.value.found_stats \subseteq Entries(get_all_skills)

\* C33: the worker never calls readtext on an engine handle that stop() has
\* released: no worker that has passed the test of the handle makes the call
\* when a stop() has since set running false and the handle to None.
NoCallOnReleasedHandle ==
    [][\A t \in Workers : (WReadtext(t) /\ ~running) => reader # None]_vars

\* C34: once start() has returned success and while running is true, the
\* engine handle is not None, also when a stop() is finishing on a worker or
\* on another thread: no stop() that finishes with no start() at work
\* leaves running true and the handle None.
EngineWhileRunning ==
    [][(/\ \/ UiStopCleanup
           \/ EmergencyStopCleanup
           \/ \E t \in Workers : WStopCleanup(t)
        /\ ui_pc' # "start_init"
        /\ running')
       => reader' # None]_vars

\* A stop() shows its summary block.
ShowsSummary ==
    \/ UiStopSummary
    \/ EmergencyStopSummary
    \/ \E t \in Workers : WStopSummary(t)

\* C35: the summary block of a run is shown at most once, also when the
\* stop() of a worker that met the goal runs beside a stop() or an
\* emergency_stop() of another thread: no stop() shows the block after
\* another has shown it and reset the counter, so that every block shown has
\* a counted stat to report.
SummaryShownOnce ==
    [][ShowsSummary => stat_counter # EmptyDict]_vars

\* C36: an item whose text is exactly a catalog name with no digit in it is
\* accepted as a label and mapped to that very name.
CatalogNameMapsToItself ==
    (/\ args.fn = "parse_detected_text: first loop"
     /\ result.done
     /\ args.detected_items[1].text \in Entries(KNOWN_SKILLS)
     /\ ~HasDigitRun(args.detected_items[1].text))
    => /\ Len(result.value.stats) = 1
       /\ result.value.stats[1].stat_name = args.detected_items[1].text

\* C37: when an arrival label with its number N is among the detected items,
\* the output holds N under Arrival Skill Cool Time decreased., whatever
\* other value the capture holds, before or after the label and on whatever
\* line.
ArrivalKeepsOwnValue ==
    \A prefix \in ArrivalPrefixes, n \in ArrivalNumbers, suffix \in ArrivalSuffixes :
        (/\ args.fn = "parse_detected_text"
         /\ result.done
         /\ \E k \in DOMAIN args.detected_items :
                args.detected_items[k].text = prefix \o StrOf(n) \o suffix)
        => /\ ArrivalStat \in DOMAIN result.value.found_stats
           /\ result.value.found_stats[ArrivalStat] = n

\* C38: every capture that returns an image shows the detection region most
\* recently set, or the rectangle the window has at that capture when none
\* has been set; a region set after an earlier capture is the one the next
\* capture shows.
CaptureUsesCurrentRegion ==
    (/\ args.fn = "capture_screen_region"
     /\ result.value.image # NoRegion
     /\ result.value.self.detection_region # NoRegion \/ args.rect # NoRegion)
    => result.value.image
           = IF result.value.self.detection_region # NoRegion
             THEN result.value.self.detection_region
             ELSE args.rect

\* A stop() returns without having shown the summary block.
ReturnsWithoutSummary ==
    \/ UiStopCleanup /\ ui_pc' = "idle"
    \/ EmergencyStopCleanup /\ key_pc' = "idle"
    \/ \E t \in Workers : WStopCleanup(t) /\ exited' = "break"

\* C39: at stop(), whenever the counter of unmatched texts is not empty, the
\* summary with the list of unmatched texts is shown, whether or not a stat
\* was counted: no stop() returns without the summary while that counter
\* holds an entry.
UnmatchedListedAtStop ==
    [][ReturnsWithoutSummary => unmapped_ocr_counter = EmptyDict]_vars

====
